---- MODULE Spec2Model ----
(***************************************************************************)
(* Verification model of the text-structuring engine of apiCamara:         *)
(* TextParser (utils/textParser.ts) and the document pipeline of           *)
(* DocumentService (services/leiService.ts).                          *)
(*                                                                         *)
(* Texts are sequences of one-character strings.  Characters outside       *)
(* ASCII are written with an ASCII stand-in, so that the module does not   *)
(* depend on the encoding it is read with:                                 *)
(*     "^"  is  U+00BA  (masculine ordinal indicator)                      *)
(*     "*"  is  U+00B0  (degree sign)                                      *)
(*     "$"  is  U+00A7  (section sign)                                     *)
(*     "@"  is  U+00E1  (a with acute)      "#"  is  U+00FA  (u with acute) *)
(*     "~"  is  U+00E3  (a with tilde)      "&"  is  U+00F3  (o with acute) *)
(*     "%"  is  U+00ED  (i with acute)      "="  is  U+00E7  (c with cedilla)*)
(*     "!"  is  U+00E0  (a with grave)                                      *)
(* Every regular expression of the source is translated to an operator     *)
(* that scans the text the way the backtracking matcher does.              *)
(***************************************************************************)
EXTENDS Integers, Sequences, FiniteSets, TLC

\* A string literal as a sequence of one-character strings.
Chars(s) == [i \in 1..Len(s) |-> SubSeq(s, i, i)]

\* Body with its parameter bound to v: a local constant
With(v, Body(_)) == Body(v)

\* null and undefined: of a string-valued field, of a text, of an object
NULL == "null"
NoText == <<NULL>>
NoObject == [null |-> TRUE]

(***************************************************************************)
(* Character classes of the regular expressions.                           *)
(***************************************************************************)
UpperSeq == Chars("ABCDEFGHIJKLMNOPQRSTUVWXYZ")
LowerSeq == Chars("abcdefghijklmnopqrstuvwxyz")
UpperAZ == {UpperSeq[i] : i \in 1..Len(UpperSeq)}
LowerAZ == {LowerSeq[i] : i \in 1..Len(LowerSeq)}
Digit == {"0", "1", "2", "3", "4", "5", "6", "7", "8", "9"}
\* \w without the u flag: ASCII only
WordCh == UpperAZ \cup LowerAZ \cup Digit \cup {"_"}
\* [A-Za-zÀ-ÿ]
Accented == {"@", "#", "~", "&", "%", "=", "!"}
LetterExt == UpperAZ \cup LowerAZ \cup Accented
\* \s
Space == {" ", "\t", "\n", "\r"}
\* the class of the two ordinal glyphs
OrdGlyph == {"^", "*"}
\* [\d.,\/\-]
NumCh == Digit \cup {".", ",", "/", "-"}
\* [IVXLCDM] under the i flag
RomanCh == {"I", "V", "X", "L", "C", "D", "M", "i", "v", "x", "l", "c", "d", "m"}

\* Case folding of the i flag.
Lower(c) ==
  IF c \in UpperAZ
  THEN LowerSeq[CHOOSE i \in 1..Len(UpperSeq) : UpperSeq[i] = c]
  ELSE c

Upper(c) ==
  IF c \in LowerAZ
  THEN UpperSeq[CHOOSE i \in 1..Len(LowerSeq) : LowerSeq[i] = c]
  ELSE c

LowerStr(s) == [i \in 1..Len(s) |-> Lower(s[i])]
\* String.prototype.toUpperCase: the capitals of the accented letters are no
\* characters of the model, an accented letter stands for both its cases
toUpperCase(s) == [i \in 1..Len(s) |-> Upper(s[i])]

\* The first position >= p of s that holds no character of set (Len(s)+1 if none):
\* where a greedy run of the class that starts at p ends.
RECURSIVE SkipSet(_, _, _)
SkipSet(s, p, set) ==
  IF p <= Len(s) /\ s[p] \in set THEN SkipSet(s, p + 1, set) ELSE p

\* Whether s holds the literal w (given in lower case) at p, letter case ignored.
HasLit(s, p, w) ==
  /\ p >= 1
  /\ p + Len(w) - 1 <= Len(s)
  /\ \A k \in 1..Len(w) : Lower(s[p + k - 1]) = w[k]

\* \b before the word character at p.
WordStart(s, p) == p = 1 \/ s[p - 1] \notin WordCh

\* The part of s from p to its end.
From(s, p) == IF p > Len(s) THEN <<>> ELSE SubSeq(s, p, Len(s))

\* String.prototype.trim
trim(s) ==
  With(SkipSet(s, 1, Space), LAMBDA a :
  With({e \in 0..Len(s) : e = 0 \/ s[e] \notin Space}, LAMBDA ends :
  With(CHOOSE e \in ends : \A f \in ends : f <= e, LAMBDA b :
    IF a > b THEN <<>> ELSE SubSeq(s, a, b))))

\* String.prototype.replace with a global regular expression: MatchEnd(s, p) is
\* the position after the match that starts at p (0: no match at p), Repl(s, p, e)
\* the replacement of the match s[p..e-1].  Matching resumes after each match.
ReplaceAll(s, MatchEnd(_, _), Repl(_, _, _)) ==
  LET hits == {p \in 1..Len(s) : MatchEnd(s, p) > p}
      out[p \in 1..(Len(s) + 1)] ==
        LET next == {h \in hits : h >= p}
            h == CHOOSE h1 \in next : \A h2 \in next : h1 <= h2
        IN IF next = {} THEN From(s, p)
           ELSE SubSeq(s, p, h - 1) \o Repl(s, h, MatchEnd(s, h)) \o out[MatchEnd(s, h)]
  IN out[1]

(***************************************************************************)
(* TextParser.cleanText: one operator per replace call, in source order.   *)
(***************************************************************************)
\* /[\r\t]+/g -> ' '
CleanTabs(s) ==
  ReplaceAll(s,
    LAMBDA t, p : IF t[p] \in {"\r", "\t"} THEN SkipSet(t, p, {"\r", "\t"}) ELSE 0,
    LAMBDA t, p, e : <<" ">>)

\* /\bn\.?\s*/gi -> 'n^ '
CleanNDot(s) ==
  ReplaceAll(s,
    LAMBDA t, p :
      IF Lower(t[p]) = "n" /\ WordStart(t, p)
      THEN SkipSet(t, IF p + 1 <= Len(t) /\ t[p + 1] = "." THEN p + 2 ELSE p + 1, Space)
      ELSE 0,
    LAMBDA t, p, e : <<"n", "^", " ">>)

\* /\bn*\s*/gi with the degree sign -> 'n^ '
CleanNDegree(s) ==
  ReplaceAll(s,
    LAMBDA t, p :
      IF Lower(t[p]) = "n" /\ WordStart(t, p) /\ p + 1 <= Len(t) /\ t[p + 1] = "*"
      THEN SkipSet(t, p + 2, Space)
      ELSE 0,
    LAMBDA t, p, e : <<"n", "^", " ">>)

\* /\bn\s*^\s*/gi -> 'n^ '
CleanNOrd(s) ==
  ReplaceAll(s,
    LAMBDA t, p :
      IF Lower(t[p]) = "n" /\ WordStart(t, p)
      THEN LET q == SkipSet(t, p + 1, Space)
           IN IF q <= Len(t) /\ t[q] = "^" THEN SkipSet(t, q + 1, Space) ELSE 0
      ELSE 0,
    LAMBDA t, p, e : <<"n", "^", " ">>)

\* /\bn^[^*\s]+/gi -> 'n^ '
CleanNRun(s) ==
  ReplaceAll(s,
    LAMBDA t, p :
      IF /\ Lower(t[p]) = "n" /\ WordStart(t, p)
         /\ p + 2 <= Len(t) /\ t[p + 1] = "^" /\ t[p + 2] \in OrdGlyph \cup Space
      THEN SkipSet(t, p + 2, OrdGlyph \cup Space)
      ELSE 0,
    LAMBDA t, p, e : <<"n", "^", " ">>)

\* /(\d+)\s*[^*]/g -> '$1^'
CleanDigitOrd(s) ==
  ReplaceAll(s,
    LAMBDA t, p :
      IF t[p] \in Digit
      THEN LET q == SkipSet(t, SkipSet(t, p, Digit), Space)
           IN IF q <= Len(t) /\ t[q] \in OrdGlyph THEN q + 1 ELSE 0
      ELSE 0,
    LAMBDA t, p, e : SubSeq(t, p, SkipSet(t, p, Digit) - 1) \o <<"^">>)

\* /([A-Za-zÀ-ÿ])\s*[^*]\s*([A-Za-zÀ-ÿ])/g -> '$1$2'
CleanOrdInWord(s) ==
  ReplaceAll(s,
    LAMBDA t, p :
      IF t[p] \in LetterExt
      THEN LET q == SkipSet(t, p + 1, Space)
           IN IF q <= Len(t) /\ t[q] \in OrdGlyph
              THEN LET r == SkipSet(t, q + 1, Space)
                   IN IF r <= Len(t) /\ t[r] \in LetterExt THEN r + 1 ELSE 0
              ELSE 0
      ELSE 0,
    LAMBDA t, p, e : <<t[p], t[e - 1]>>)

\* /\b([nN])\s*[^*]\s+([A-Za-zÀ-ÿ])/g -> '$1$2'
CleanNBeforeWord(s) ==
  ReplaceAll(s,
    LAMBDA t, p :
      IF Lower(t[p]) = "n" /\ WordStart(t, p)
      THEN LET q == SkipSet(t, p + 1, Space)
           IN IF q <= Len(t) /\ t[q] \in OrdGlyph
              THEN LET r == SkipSet(t, q + 1, Space)
                   IN IF r > q + 1 /\ r <= Len(t) /\ t[r] \in LetterExt THEN r + 1 ELSE 0
              ELSE 0
      ELSE 0,
    LAMBDA t, p, e : <<t[p], t[e - 1]>>)

\* /\s+\n/g -> '\n': the greedy \s+ gives back to the last newline of the run
CleanSpaceNewline(s) ==
  ReplaceAll(s,
    LAMBDA t, p :
      IF t[p] \in Space
      THEN LET r == SkipSet(t, p, Space)
               nls == {q \in (p + 1)..(r - 1) : t[q] = "\n"}
           IN IF nls = {} THEN 0
              ELSE (CHOOSE q \in nls : \A q2 \in nls : q2 <= q) + 1
      ELSE 0,
    LAMBDA t, p, e : <<"\n">>)

\* /\n{3,}/g -> '\n\n'
CleanNewlines(s) ==
  ReplaceAll(s,
    LAMBDA t, p :
      IF t[p] = "\n"
      THEN LET r == SkipSet(t, p, {"\n"}) IN IF r - p >= 3 THEN r ELSE 0
      ELSE 0,
    LAMBDA t, p, e : <<"\n", "\n">>)

cleanText(text) ==
  LET t0 == CleanTabs(text)
      t1 == CleanNDot(t0)
      t2 == CleanNDegree(t1)
      t3 == CleanNOrd(t2)
      t4 == CleanNRun(t3)
      t5 == CleanDigitOrd(t4)
      t6 == CleanOrdInWord(t5)
      t7 == CleanNBeforeWord(t6)
      t8 == CleanSpaceNewline(t7)
      t9 == CleanNewlines(t8)
  IN trim(t9)


(***************************************************************************)
(* TextParser.PATTERNS.  A match is a record: ok, and the groups g0 (the   *)
(* whole match), g1, g2 that the code reads.  A group that took no part    *)
(* in the match is NULL (undefined in the source).                         *)
(***************************************************************************)
NoMatch == [ok |-> FALSE]

\* [-–—]: of the three dashes the texts of the model hold the hyphen only
Dash == {"-"}

\* \s*[-–—]?\s*(.*) from p: the text of group (.*)
AfterDash(line, p) ==
  LET q == SkipSet(line, p, Space)
      r == IF q <= Len(line) /\ line[q] \in Dash THEN q + 1 ELSE q
  IN From(line, SkipSet(line, r, Space))

\* (\d+[ºº°]?) at p (a digit): the position after the group
OrdinalEnd(line, p) ==
  LET q == SkipSet(line, p, Digit)
  IN IF q <= Len(line) /\ line[q] \in OrdGlyph THEN q + 1 ELSE q

\* artigo: /^(?:Art\.?\s*|Artigo\s+)(\d+[ºº°]?)\s*[-–—]?\s*(.*)/i
artigoMatch(line) ==
  LET a1 == IF HasLit(line, 1, Chars("art"))
            THEN SkipSet(line, IF 4 <= Len(line) /\ line[4] = "." THEN 5 ELSE 4, Space)
            ELSE 0
      a2 == IF HasLit(line, 1, Chars("artigo")) /\ 7 <= Len(line) /\ line[7] \in Space
            THEN SkipSet(line, 7, Space)
            ELSE 0
      isNum(q) == q > 0 /\ q <= Len(line) /\ line[q] \in Digit
  IN With(IF isNum(a1) THEN a1 ELSE IF isNum(a2) THEN a2 ELSE 0, LAMBDA p :
     With(IF p = 0 THEN 0 ELSE OrdinalEnd(line, p), LAMBDA e :
       IF p = 0 THEN NoMatch
       ELSE [ok |-> TRUE, g1 |-> SubSeq(line, p, e - 1), g2 |-> AfterDash(line, e)]))

\* paragrafo: /^(?:§\s*(\d+[ºº°]?)|Parágrafo\s+único)\s*[-–—]?\s*(.*)/i
paragrafoMatch(line) ==
  With(IF Len(line) >= 1 /\ line[1] = "$" THEN SkipSet(line, 2, Space) ELSE 0, LAMBDA p :
  With(IF HasLit(line, 1, Chars("par@grafo")) /\ 10 <= Len(line) /\ line[10] \in Space
       THEN SkipSet(line, 10, Space)
       ELSE 0, LAMBDA u :
    IF p > 0 /\ p <= Len(line) /\ line[p] \in Digit
    THEN With(OrdinalEnd(line, p), LAMBDA e :
           [ok |-> TRUE, g1 |-> SubSeq(line, p, e - 1), g2 |-> AfterDash(line, e)])
    ELSE IF u > 0 /\ HasLit(line, u, Chars("#nico"))
    THEN [ok |-> TRUE, g1 |-> NoText, g2 |-> AfterDash(line, u + 5)]
    ELSE NoMatch))

\* A label, \s*, one separator of seps, \s*, (.*): the label ends before lend
LabelMatch(line, lend, seps) ==
  LET q == SkipSet(line, lend, Space)
  IN IF lend > 1 /\ q <= Len(line) /\ line[q] \in seps
     THEN [ok |-> TRUE,
           g1 |-> SubSeq(line, 1, lend - 1),
           g2 |-> From(line, SkipSet(line, q + 1, Space))]
     ELSE NoMatch

\* inciso: /^([IVXLCDM]+)\s*[-–—.)]\s*(.*)/i
incisoMatch(line) == LabelMatch(line, SkipSet(line, 1, RomanCh), Dash \cup {".", ")"})

\* alinea: /^([a-z])\s*[).-]\s*(.*)/i
alineaMatch(line) ==
  LabelMatch(line, IF Len(line) >= 1 /\ line[1] \in UpperAZ \cup LowerAZ THEN 2 ELSE 1,
             {")", ".", "-"})

\* item: /^(\d+)\s*[).-]\s*(.*)/i
itemMatch(line) == LabelMatch(line, SkipSet(line, 1, Digit), {")", ".", "-"})

\* capitulo: /^(?:cap[íi]tulo)\s+([IVXLCDM]+|\d+)\b\.?\s*(?:[-–—:]?\s*(.*))?$/i
capituloMatch(line) ==
  With(HasLit(line, 1, Chars("cap%tulo")) \/ HasLit(line, 1, Chars("capitulo")), LAMBDA word :
  With(IF word /\ 9 <= Len(line) /\ line[9] \in Space THEN SkipSet(line, 9, Space) ELSE 0,
       LAMBDA p :
  With(IF p = 0 \/ p > Len(line) THEN 0
       ELSE IF line[p] \in RomanCh THEN SkipSet(line, p, RomanCh)
       ELSE IF line[p] \in Digit THEN SkipSet(line, p, Digit)
       ELSE 0, LAMBDA e :
  With(IF e <= Len(line) /\ line[e] = "." THEN e + 1 ELSE e, LAMBDA e2 :
  With(SkipSet(line, e2, Space), LAMBDA e3 :
  With(IF e3 <= Len(line) /\ line[e3] \in Dash \cup {":"} THEN e3 + 1 ELSE e3, LAMBDA e4 :
    IF e > 0 /\ (e > Len(line) \/ line[e] \notin WordCh)
    THEN [ok |-> TRUE,
          g1 |-> SubSeq(line, p, e - 1),
          g2 |-> From(line, SkipSet(line, e4, Space))]
    ELSE NoMatch))))))

\* Words separated by \s+, from p: the position after the last word, 0 if the
\* line does not hold them.  Each word is a set of alternatives.
RECURSIVE PhraseEnd(_, _, _)
PhraseEnd(line, p, words) ==
  With({w \in Head(words) : HasLit(line, p, w)}, LAMBDA alts :
  With(p + Len(CHOOSE w \in alts : TRUE), LAMBDA e :
    IF alts = {} THEN 0
    ELSE IF Len(words) = 1 THEN e
    ELSE IF e <= Len(line) /\ line[e] \in Space
         THEN PhraseEnd(line, SkipSet(line, e, Space), Tail(words))
         ELSE 0))

\* (?:,\s*de\s+[\d\s\w,]+)? tried at e, where the greedy number run ended
DateTailEnd(line, e) ==
  With(SkipSet(line, e + 1, Space), LAMBDA q :
  With(SkipSet(line, q + 2, Digit \cup Space \cup WordCh \cup {","}), LAMBDA z :
    IF /\ e <= Len(line) /\ line[e] = ","
       /\ HasLit(line, q, Chars("de"))
       /\ q + 2 <= Len(line) /\ line[q + 2] \in Space
       /\ z >= q + 4
    THEN z ELSE e))

\* \s+n[ºº°]?\s*[\d.,\/-]+(?:,\s*de\s+[\d\s\w,]+)? from p, the position after
\* the title's words: the position after the match, 0 if none
TitleTailEnd(line, p) ==
  With(SkipSet(line, p, Space), LAMBDA q :
  With(IF q + 1 <= Len(line) /\ line[q + 1] \in OrdGlyph THEN q + 2 ELSE q + 1, LAMBDA q2 :
  With(SkipSet(line, q2, Space), LAMBDA q3 :
    IF /\ p >= 1 /\ p <= Len(line) /\ line[p] \in Space
       /\ q <= Len(line) /\ Lower(line[q]) = "n"
       /\ q3 <= Len(line) /\ line[q3] \in NumCh
    THEN DateTailEnd(line, SkipSet(line, q3, NumCh))
    ELSE 0)))

\* A title pattern made of words and the number tail
TitleEnd(line, words) ==
  With(PhraseEnd(line, 1, words), LAMBDA e : IF e = 0 THEN 0 ELSE TitleTailEnd(line, e))

W(s) == {Chars(s)}

LeiComplementarWords == <<W("lei"), W("complementar")>>

\* tituloLeiComplementar: /^(?:Lei\s+Complementar)\s+n.../i
tituloLeiComplementar(line) == TitleEnd(line, LeiComplementarWords)

\* tituloResolucao: /^(?:Resolu[cç][aã]o)\s+n.../i
tituloResolucao(line) ==
  TitleEnd(line, <<{Chars("resolucao"), Chars("resolu=ao"), Chars("resoluc~o"), Chars("resolu=~o")}>>)

\* tituloLei: /^(?:Lei|Decreto|Medida Provisória|Emenda Constitucional)\s+(?:Legislativo\s+)?n.../i
tituloLei(line) ==
  With(<<{Chars("lei"), Chars("decreto"), Chars("medida provis&ria"),
          Chars("emenda constitucional")}>>, LAMBDA first :
  With(TitleEnd(line, first \o <<W("legislativo")>>), LAMBDA with :
    IF with > 0 THEN with ELSE TitleEnd(line, first)))

\* tituloDecretoLegislativo: /^(?:Decreto\s+Legislativo)\s+n.../i
tituloDecretoLegislativo(line) == TitleEnd(line, <<W("decreto"), W("legislativo")>>)

\* tituloProjetoLeiComplementar: /^(?:Projeto\s+de\s+Lei\s+Complementar)\s+n.../i
tituloProjetoLeiComplementar(line) ==
  TitleEnd(line, <<W("projeto"), W("de")>> \o LeiComplementarWords)

\* tituloProjetoEmendaLeiComplementar:
\* /^(?:Projeto\s+de\s+Emenda\s+(?:à|a)\s+Lei\s+Complementar)\s+n.../i
tituloProjetoEmendaLeiComplementar(line) ==
  TitleEnd(line, <<W("projeto"), W("de"), W("emenda"), {Chars("!"), Chars("a")}>>
                 \o LeiComplementarWords)

\* tituloEmendaLeiComplementar: /^(?:Emenda\s+(?:à|a)\s+Lei\s+Complementar)\s+n.../i
tituloEmendaLeiComplementar(line) ==
  TitleEnd(line, <<W("emenda"), {Chars("!"), Chars("a")}>> \o LeiComplementarWords)

\* titulo.match(/n[ºº°]?\s*([\d.,\/\-]+)/i): the first place that matches; group 1
numeroMatch(titulo) ==
  LET numAt(i) ==
        SkipSet(titulo, IF i + 1 <= Len(titulo) /\ titulo[i + 1] \in OrdGlyph
                        THEN i + 2 ELSE i + 1, Space)
  IN With({i \in 1..Len(titulo) :
             /\ Lower(titulo[i]) = "n"
             /\ numAt(i) <= Len(titulo) /\ titulo[numAt(i)] \in NumCh}, LAMBDA hits :
     With(numAt(CHOOSE i \in hits : \A j \in hits : i <= j), LAMBDA n0 :
       IF hits = {} THEN NoMatch
       ELSE [ok |-> TRUE, g1 |-> SubSeq(titulo, n0, SkipSet(titulo, n0, NumCh) - 1)]))

NumeroNaoIdentificado == Chars("N#mero n~o identificado")
TituloNaoIdentificado == Chars("T%tulo n~o identificado")

\* aut[óo]grafo(?:s)?\s+de\s+lei at i: the position after it, 0 if none
AutografoWordsEnd(s, i) ==
  With(IF /\ HasLit(s, i, Chars("aut")) /\ HasLit(s, i + 4, Chars("grafo"))
          /\ Lower(s[i + 3]) \in {"&", "o"}
       THEN i + 9 ELSE 0, LAMBDA e :
  With(IF e > 0 /\ HasLit(s, e, Chars("s")) THEN e + 1 ELSE e, LAMBDA e2 :
    IF e2 > 0 /\ e2 <= Len(s) /\ s[e2] \in Space
    THEN PhraseEnd(s, SkipSet(s, e2, Space), <<W("de"), W("lei")>>)
    ELSE 0))

\* (?:\s+complementar)? at e: the position after it (e if it takes no part)
ComplementarEnd(s, e) ==
  With(SkipSet(s, e, Space), LAMBDA c :
    IF /\ e >= 1 /\ e <= Len(s) /\ s[e] \in Space
       /\ HasLit(s, c, Chars("complementar"))
    THEN c + 12
    ELSE e)

\* (?:n\s*[^\d]{0,6}\s*)? followed by ([\d.,\/\-]+), from f: where group 1
\* starts, 0 if there is no match.  The matcher tries the longest \s* first and,
\* for it, the longest run of [^\d] first.
AutografoNumberStart(s, f) ==
  LET start(a, k) == SkipSet(s, f + 1 + a + k, Space)
      fits(a, k) ==
        /\ f + a + k <= Len(s)
        /\ \A j \in (f + 1 + a)..(f + a + k) : s[j] \notin Digit
        /\ With(start(a, k), LAMBDA g : g <= Len(s) /\ s[g] \in NumCh)
  IN With(SkipSet(s, f + 1, Space) - (f + 1), LAMBDA maxA :
     With({c \in (0..maxA) \X (0..6) : fits(c[1], c[2])}, LAMBDA cands :
     With(CHOOSE c \in cands :
            \A d \in cands : d[1] < c[1] \/ (d[1] = c[1] /\ d[2] <= c[2]), LAMBDA best :
       IF f > Len(s) THEN 0
       ELSE IF Lower(s[f]) = "n" /\ cands # {} THEN start(best[1], best[2])
       ELSE IF s[f] \in NumCh THEN f
       ELSE 0)))

\* AUTOGRAFO_HEADER:
\* /^(?:\s*)aut[óo]grafo(?:s)?\s+de\s+lei(?:\s+complementar)?\s*(?:n\s*[^\d]{0,6}\s*)?([\d.,\/\-]+)/i
AUTOGRAFO_HEADER(line) ==
  With(AutografoWordsEnd(line, SkipSet(line, 1, Space)), LAMBDA e :
  With(IF e = 0 THEN 0
       ELSE AutografoNumberStart(line, SkipSet(line, ComplementarEnd(line, e), Space)),
       LAMBDA h :
  With(SkipSet(line, h, NumCh), LAMBDA z :
    IF h = 0 THEN NoMatch
    ELSE [ok |-> TRUE, g0 |-> SubSeq(line, 1, z - 1), g1 |-> SubSeq(line, h, z - 1)])))

\* /aut[óo]grafo(?:s)?\s+de\s+lei\s+complementar/i.test(s)
IsAutografoComplementar(s) ==
  \E i \in 1..Len(s) :
    With(AutografoWordsEnd(s, i), LAMBDA e : e > 0 /\ ComplementarEnd(s, e) > e)

\* A formal title: its words' pattern, the prefix of the number, the type
TitleNumero(titulo, prefix) ==
  With(numeroMatch(titulo), LAMBDA m :
    prefix \o (IF m.ok THEN m.g1 ELSE NumeroNaoIdentificado))

TitleInfo(line, e, prefix, tipo) ==
  With(trim(SubSeq(line, 1, e - 1)), LAMBDA titulo :
    [titulo |-> titulo, numero |-> TitleNumero(titulo, prefix), tipo |-> tipo])

\* A slip in the fallback title: the header as written, not the label
AutografoInfoAsWritten(auto) ==
  [titulo |-> trim(auto.g0), numero |-> trim(auto.g1), tipo |-> "LEI"]

\* lines 136-141: the title made of an autógrafo header
AutografoInfo(auto) ==
  With(IsAutografoComplementar(auto.g0), LAMBDA isComplementar :
  With(IF trim(auto.g1) # <<>> THEN trim(auto.g1) ELSE NumeroNaoIdentificado, LAMBDA numero :
    [titulo |-> Chars("Aut&grafo de Lei")
                  \o (IF isComplementar THEN Chars(" Complementar") ELSE <<>>)
                  \o Chars(" n^ ") \o numero,
     numero |-> IF isComplementar THEN Chars("LC ") \o numero ELSE numero,
     tipo |-> IF isComplementar THEN "COMPLEMENTAR" ELSE "LEI"]))

\* TextParser.extractTitleAndNumber: NoObject (null) when the line is no title
extractTitleAndNumber(line) ==
  With(tituloLeiComplementar(line), LAMBDA leiComplementar :
  With(tituloResolucao(line), LAMBDA resolucao :
  With(tituloDecretoLegislativo(line), LAMBDA decretoLegislativo :
  With(tituloProjetoLeiComplementar(line), LAMBDA projetoLeiComplementar :
  With(tituloProjetoEmendaLeiComplementar(line), LAMBDA projetoEmenda :
  With(tituloEmendaLeiComplementar(line), LAMBDA emenda :
  With(tituloLei(line), LAMBDA lei :
  With(AUTOGRAFO_HEADER(line), LAMBDA auto :
    IF leiComplementar > 0 THEN TitleInfo(line, leiComplementar, Chars("LC "), "COMPLEMENTAR")
    ELSE IF resolucao > 0 THEN TitleInfo(line, resolucao, Chars("RES "), "RESOLUCAO")
    ELSE IF decretoLegislativo > 0 THEN TitleInfo(line, decretoLegislativo, <<>>, "LEI")
    ELSE IF projetoLeiComplementar > 0
    THEN TitleInfo(line, projetoLeiComplementar, Chars("LC "), "COMPLEMENTAR")
    ELSE IF projetoEmenda > 0 THEN TitleInfo(line, projetoEmenda, Chars("LC "), "COMPLEMENTAR")
    ELSE IF emenda > 0 THEN TitleInfo(line, emenda, Chars("LC "), "COMPLEMENTAR")
    ELSE IF lei > 0 THEN TitleInfo(line, lei, <<>>, "LEI")
    ELSE IF auto.ok THEN AutografoInfo(auto)
    ELSE NoObject))))))))

(***************************************************************************)
(* TextParser.parseDate.  A Date is the calendar day new Date(y, m, d)     *)
(* stands for: [year, month (0..11), day].                                 *)
(***************************************************************************)
DigitSeq == Chars("0123456789")
DigitVal(c) == (CHOOSE i \in 1..Len(DigitSeq) : DigitSeq[i] = c) - 1

\* parseInt(s, 10) of a run of digits
RECURSIVE ParseInt(_)
ParseInt(ds) ==
  IF ds = <<>> THEN 0
  ELSE ParseInt(SubSeq(ds, 1, Len(ds) - 1)) * 10 + DigitVal(ds[Len(ds)])

MESES ==
  <<Chars("janeiro"), Chars("fevereiro"), Chars("mar=o"), Chars("abril"),
    Chars("maio"), Chars("junho"), Chars("julho"), Chars("agosto"),
    Chars("setembro"), Chars("outubro"), Chars("novembro"), Chars("dezembro")>>

DaysIn(y, m) ==
  IF m = 1 THEN (IF (y % 4 = 0 /\ y % 100 # 0) \/ y % 400 = 0 THEN 29 ELSE 28)
  ELSE IF m \in {3, 5, 8, 10} THEN 30 ELSE 31

\* new Date(year, monthIndex, day): a day past the month's end rolls over, day 0
\* is the last day of the month before, years 0..99 are 1900..1999
RECURSIVE RollDate(_, _, _)
RollDate(y, m, d) ==
  IF d > DaysIn(y, m)
  THEN IF m = 11 THEN RollDate(y + 1, 0, d - DaysIn(y, m))
       ELSE RollDate(y, m + 1, d - DaysIn(y, m))
  ELSE IF d < 1
  THEN IF m = 0 THEN RollDate(y - 1, 11, d + DaysIn(y - 1, 11))
       ELSE RollDate(y, m - 1, d + DaysIn(y, m - 1))
  ELSE [year |-> y, month |-> m, day |-> d]

newDate(y, m, d) == RollDate(IF y <= 99 THEN 1900 + y ELSE y, m, d)

\* data: /de\s+(\d{1,2})\s+de\s+(\w+)\s+de\s+(\d{4})/i matched at i
DataMatchAt(line, i) ==
  LET sp(p) == p <= Len(line) /\ line[p] \in Space
      dg(p) == p <= Len(line) /\ line[p] \in Digit
  IN With(SkipSet(line, i + 2, Space), LAMBDA d0 :
     With(IF dg(d0 + 1) THEN d0 + 2 ELSE d0 + 1, LAMBDA d1 :
     With(SkipSet(line, d1, Space), LAMBDA c :
     With(SkipSet(line, c + 2, Space), LAMBDA m0 :
     With(SkipSet(line, m0, WordCh), LAMBDA m1 :
     With(SkipSet(line, m1, Space), LAMBDA f :
     With(SkipSet(line, f + 2, Space), LAMBDA y0 :
       IF /\ HasLit(line, i, Chars("de")) /\ sp(i + 2) /\ dg(d0) /\ sp(d1)
          /\ HasLit(line, c, Chars("de")) /\ sp(c + 2) /\ m1 > m0 /\ sp(m1)
          /\ HasLit(line, f, Chars("de")) /\ sp(f + 2)
          /\ \A k \in 0..3 : dg(y0 + k)
       THEN [ok |-> TRUE, g1 |-> SubSeq(line, d0, d1 - 1),
             g2 |-> SubSeq(line, m0, m1 - 1), g3 |-> SubSeq(line, y0, y0 + 3)]
       ELSE NoMatch)))))))

\* TextParser.parseDate: NULL (undefined) when the line holds no date
parseDate(line) ==
  With({i \in 1..Len(line) : DataMatchAt(line, i).ok}, LAMBDA hits :
  With(DataMatchAt(line, CHOOSE i \in hits : \A j \in hits : i <= j), LAMBDA m :
  With({k \in 1..Len(MESES) : MESES[k] = LowerStr(m.g2)}, LAMBDA months :
    IF hits = {} \/ months = {} THEN NoObject
    ELSE newDate(ParseInt(m.g3), (CHOOSE k \in months : TRUE) - 1, ParseInt(m.g1)))))

\* TextParser.isStructuralElement
isStructuralElement(line) ==
  \/ artigoMatch(line).ok
  \/ paragrafoMatch(line).ok
  \/ incisoMatch(line).ok
  \/ alineaMatch(line).ok
  \/ itemMatch(line).ok
  \/ capituloMatch(line).ok

EmentaMinLength == 10
EmentaMaxLength == 500

\* /(Art\.|Artigo|Cap[íi]tulo|Seção|§|I\s*-|II\s*-)/i.test(line)
HasStructuralWords(line) ==
  \E i \in 1..Len(line) :
    \/ \E w \in {Chars("art."), Chars("artigo"), Chars("cap%tulo"), Chars("capitulo"),
                 Chars("se=~o"), Chars("$")} : HasLit(line, i, w)
    \/ /\ Lower(line[i]) = "i"
       /\ LET q == SkipSet(line, i + 1, Space) IN q <= Len(line) /\ line[q] = "-"
    \/ /\ HasLit(line, i, Chars("ii"))
       /\ LET q == SkipSet(line, i + 2, Space) IN q <= Len(line) /\ line[q] = "-"

\* TextParser.extractEmenta: NULL when the text is no summary
extractEmenta(line) ==
  IF \/ line = <<>>
     \/ Len(line) < EmentaMinLength
     \/ Len(line) > EmentaMaxLength
     \/ HasStructuralWords(line)
  THEN NoText
  ELSE line

(***************************************************************************)
(* TextParser.parseHierarchicalText.  The state of the scan is a record:   *)
(* the locals of the method.  The open pointers are indices: currentArtigo *)
(* into artigos, currentParagrafo into the open article's paragrafos,      *)
(* currentInciso into the list incisoHome names ("paragrafo": the open     *)
(* paragraph's incisos, "artigo": the open article's incisos, "detached":  *)
(* the inciso object that was created while nothing was open and is in no  *)
(* list), currentAlinea into the open inciso's alineas.  0 and NULL are    *)
(* the null pointer.                                                       *)
(* History fields, not in the source: i counts the lines scanned,          *)
(* consumedAs names the branch that took the last line, openedAt the line  *)
(* at which each open node was created, markerAt the last line consumed    *)
(* as a marker of each level, appendedTo the level of the parent the last  *)
(* line's node was pushed to (NULL: no push).                              *)
(***************************************************************************)
Levels == {"capitulo", "artigo", "paragrafo", "inciso", "alinea"}

ParseStart ==
  [titulo |-> <<>>, numero |-> <<>>, ementa |-> <<>>, tipo |-> NULL, data |-> NoObject,
   artigos |-> <<>>,
   currentArtigo |-> 0, currentParagrafo |-> 0, currentInciso |-> 0,
   incisoHome |-> NULL, currentAlinea |-> 0, detached |-> NoObject,
   currentCapitulo |-> NoObject, capituloCount |-> 0,
   i |-> 0, consumedAs |-> NULL, appendedTo |-> NULL,
   openedAt |-> [l \in Levels |-> 0], markerAt |-> [l \in Levels |-> 0]]

CurArtigo(st) == st.artigos[st.currentArtigo]
CurParagrafo(st) == CurArtigo(st).paragrafos[st.currentParagrafo]
CurInciso(st) ==
  CASE st.incisoHome = "paragrafo" -> CurParagrafo(st).incisos[st.currentInciso]
    [] st.incisoHome = "artigo" -> CurArtigo(st).incisos[st.currentInciso]
    [] st.incisoHome = "detached" -> st.detached
CurAlinea(st) == CurInciso(st).alineas[st.currentAlinea]

\* st with the open inciso object replaced by inc
WithInciso(st, inc) ==
  CASE st.incisoHome = "paragrafo" ->
         [st EXCEPT !.artigos[st.currentArtigo].paragrafos[st.currentParagrafo]
                      .incisos[st.currentInciso] = inc]
    [] st.incisoHome = "artigo" ->
         [st EXCEPT !.artigos[st.currentArtigo].incisos[st.currentInciso] = inc]
    [] st.incisoHome = "detached" -> [st EXCEPT !.detached = inc]

\* the step of a line consumed as kind, which opened a node of that level
Mark(st, kind, parent) ==
  [st EXCEPT !.consumedAs = kind, !.appendedTo = parent,
             !.openedAt[kind] = st.i + 1, !.markerAt[kind] = st.i + 1]

\* lines 192-202: the title
StepTitulo(st, line, titleInfo) ==
  [st EXCEPT !.titulo = titleInfo.titulo, !.numero = titleInfo.numero,
             !.tipo = titleInfo.tipo, !.data = parseDate(line),
             !.consumedAs = "titulo", !.appendedTo = NULL]

\* A slip in lines 204-208: a summary line that is a title line replaces the
\* title
StepEmentaRetitles(st, line) ==
  With(extractTitleAndNumber(line), LAMBDA titleInfo :
    IF titleInfo # NoObject
    THEN [st EXCEPT !.titulo = titleInfo.titulo, !.numero = titleInfo.numero,
                    !.tipo = titleInfo.tipo, !.data = parseDate(line),
                    !.ementa = line, !.consumedAs = "ementa", !.appendedTo = NULL]
    ELSE [st EXCEPT !.ementa = line, !.consumedAs = "ementa", !.appendedTo = NULL])

\* lines 204-208: the summary
StepEmenta(st, line) ==
  [st EXCEPT !.ementa = line, !.consumedAs = "ementa", !.appendedTo = NULL]

\* A slip in the chapter branch: the open article is left open
StepCapituloKeepsArtigo(st, capMatch) ==
  [Mark(st, "capitulo", NULL) EXCEPT
     !.capituloCount = st.capituloCount + 1,
     !.currentCapitulo = [ordem |-> st.capituloCount + 1, numero |-> capMatch.g1,
                          nome |-> NoText],
     !.currentParagrafo = 0,
     !.currentInciso = 0, !.incisoHome = NULL, !.currentAlinea = 0]

\* lines 210-231: a chapter marker
StepCapitulo(st, capMatch) ==
  LET nomeRaw == trim(IF capMatch.g2 = NoText THEN <<>> ELSE capMatch.g2)
      cap == [ordem |-> st.capituloCount + 1,
              numero |-> IF capMatch.g1 # <<>> THEN capMatch.g1 ELSE NoText,
              nome |-> IF nomeRaw # <<>> THEN nomeRaw ELSE NoText]
  IN [Mark(st, "capitulo", NULL) EXCEPT
        !.capituloCount = st.capituloCount + 1,
        !.currentCapitulo = cap,
        !.currentArtigo = 0, !.currentParagrafo = 0,
        !.currentInciso = 0, !.incisoHome = NULL, !.currentAlinea = 0]

\* A slip in lines 244-246: the chapter is not attached
StepArtigoWithoutCapitulo(st, artigoMatch_) ==
  [Mark(st, "artigo", "lei") EXCEPT
     !.artigos = Append(st.artigos, [numero |-> artigoMatch_.g1,
                                     texto |-> trim(artigoMatch_.g2),
                                     ordem |-> Len(st.artigos) + 1,
                                     paragrafos |-> <<>>,
                                     incisos |-> <<>>,
                                     capitulo |-> NoObject]),
     !.currentArtigo = Len(st.artigos) + 1,
     !.currentParagrafo = 0,
     !.currentInciso = 0, !.incisoHome = NULL, !.currentAlinea = 0]

\* lines 233-254: an article marker
StepArtigo(st, artigoMatch_) ==
  LET newArtigo == [numero |-> artigoMatch_.g1,
                    texto |-> trim(artigoMatch_.g2),
                    ordem |-> Len(st.artigos) + 1,
                    paragrafos |-> <<>>,
                    incisos |-> <<>>,
                    capitulo |-> st.currentCapitulo]
  IN [Mark(st, "artigo", "lei") EXCEPT
        !.artigos = Append(st.artigos, newArtigo),
        !.currentArtigo = Len(st.artigos) + 1,
        !.currentParagrafo = 0,
        !.currentInciso = 0, !.incisoHome = NULL, !.currentAlinea = 0]

\* A slip in lines 266-267: the paragraph is pushed to the first article of
\* the Act, not to the open one, and is not opened
StepParagrafoToFirstArtigo(st, paragrafoMatch_) ==
  [Mark(st, "paragrafo", "artigo") EXCEPT
     !.artigos[1].paragrafos =
        Append(@, [numero |-> Chars("Par@grafo #nico"),
                   texto |-> trim(paragrafoMatch_.g2),
                   ordem |-> Len(st.artigos[1].paragrafos) + 1,
                   incisos |-> <<>>]),
     !.currentInciso = 0, !.incisoHome = NULL, !.currentAlinea = 0]

\* lines 256-271: a paragraph marker, an article being open
StepParagrafo(st, paragrafoMatch_) ==
  LET newParagrafo ==
        [numero |-> IF paragrafoMatch_.g1 # NoText THEN <<"$">> \o paragrafoMatch_.g1
                    ELSE Chars("Par@grafo #nico"),
         texto |-> trim(paragrafoMatch_.g2),
         ordem |-> Len(CurArtigo(st).paragrafos) + 1,
         incisos |-> <<>>]
  IN [Mark(st, "paragrafo", "artigo") EXCEPT
        !.artigos[st.currentArtigo].paragrafos = Append(@, newParagrafo),
        !.currentParagrafo = Len(CurArtigo(st).paragrafos) + 1,
        !.currentInciso = 0, !.incisoHome = NULL, !.currentAlinea = 0]

\* line 279: (currentParagrafo?.incisos?.length || currentArtigo?.incisos?.length || 0) + 1
IncisoOrdem(st) ==
  LET inParagrafo == IF st.currentParagrafo # 0 THEN Len(CurParagrafo(st).incisos) ELSE 0
      inArtigo == IF st.currentArtigo # 0 THEN Len(CurArtigo(st).incisos) ELSE 0
  IN (IF inParagrafo # 0 THEN inParagrafo ELSE inArtigo) + 1

\* A slip in lines 282-288: the article is tried before the paragraph
StepIncisoToArtigo(st, incisoMatch_) ==
  LET inciso == [numero |-> incisoMatch_.g1,
                 texto |-> trim(incisoMatch_.g2),
                 ordem |-> IncisoOrdem(st),
                 alineas |-> <<>>]
  IN IF st.currentArtigo # 0
     THEN [Mark(st, "inciso", "artigo") EXCEPT
             !.artigos[st.currentArtigo].incisos = Append(@, inciso),
             !.currentInciso = Len(CurArtigo(st).incisos) + 1,
             !.incisoHome = "artigo", !.currentAlinea = 0]
     ELSE [Mark(st, "inciso", NULL) EXCEPT
             !.detached = inciso,
             !.currentInciso = 1,
             !.incisoHome = "detached", !.currentAlinea = 0]

\* lines 273-292: a subsection marker
StepInciso(st, incisoMatch_) ==
  LET inciso == [numero |-> incisoMatch_.g1,
                 texto |-> trim(incisoMatch_.g2),
                 ordem |-> IncisoOrdem(st),
                 alineas |-> <<>>]
  IN IF st.currentParagrafo # 0
     THEN [Mark(st, "inciso", "paragrafo") EXCEPT
             !.artigos[st.currentArtigo].paragrafos[st.currentParagrafo].incisos =
                Append(@, inciso),
             !.currentInciso = Len(CurParagrafo(st).incisos) + 1,
             !.incisoHome = "paragrafo", !.currentAlinea = 0]
     ELSE IF st.currentArtigo # 0
     THEN [Mark(st, "inciso", "artigo") EXCEPT
             !.artigos[st.currentArtigo].incisos = Append(@, inciso),
             !.currentInciso = Len(CurArtigo(st).incisos) + 1,
             !.incisoHome = "artigo", !.currentAlinea = 0]
     ELSE [Mark(st, "inciso", NULL) EXCEPT
             !.detached = inciso,
             !.currentInciso = 1,
             !.incisoHome = "detached", !.currentAlinea = 0]

\* lines 294-307: a clause marker, a subsection being open
StepAlinea(st, alineaMatch_) ==
  LET alineaObj == [numero |-> alineaMatch_.g1,
                    texto |-> trim(alineaMatch_.g2),
                    ordem |-> Len(CurInciso(st).alineas) + 1,
                    itens |-> <<>>]
  IN [WithInciso(Mark(st, "alinea", "inciso"),
                 [CurInciso(st) EXCEPT !.alineas = Append(@, alineaObj)])
        EXCEPT !.currentAlinea = Len(CurInciso(st).alineas) + 1]

\* lines 309-320: an item marker, a clause being open
StepItem(st, itemMatch_) ==
  LET item == [numero |-> itemMatch_.g1,
               texto |-> trim(itemMatch_.g2),
               ordem |-> Len(CurAlinea(st).itens) + 1]
  IN WithInciso([st EXCEPT !.consumedAs = "item", !.appendedTo = "alinea"],
                [CurInciso(st) EXCEPT !.alineas[st.currentAlinea].itens = Append(@, item)])

\* A slip in lines 323-333: the line always goes to the summary
StepTextoToEmenta(st, line) ==
  [st EXCEPT !.consumedAs = "texto", !.appendedTo = NULL,
             !.ementa = @ \o (IF st.ementa # <<>> THEN <<" ">> ELSE <<>>) \o line]

\* lines 322-333: a line that starts no structure
StepTexto(st, line) ==
  LET more == <<" ">> \o line
      t == [st EXCEPT !.consumedAs = "texto", !.appendedTo = NULL]
  IN IF st.currentAlinea # 0
     THEN WithInciso(t, [CurInciso(st) EXCEPT !.alineas[st.currentAlinea].texto = @ \o more])
     ELSE IF st.incisoHome # NULL
     THEN WithInciso(t, [CurInciso(st) EXCEPT !.texto = @ \o more])
     ELSE IF st.currentParagrafo # 0
     THEN [t EXCEPT !.artigos[st.currentArtigo].paragrafos[st.currentParagrafo].texto =
                      @ \o more]
     ELSE IF st.currentArtigo # 0
     THEN [t EXCEPT !.artigos[st.currentArtigo].texto = @ \o more]
     ELSE [t EXCEPT !.ementa = @ \o (IF st.ementa # <<>> THEN <<" ">> ELSE <<>>) \o line]

\* lines 188-334: the body of the loop for one line
ParseBranch(st, line) ==
  With(extractTitleAndNumber(line), LAMBDA titleInfo :
  With(capituloMatch(line), LAMBDA capMatch :
  With(artigoMatch(line), LAMBDA artigoMatch_ :
  With(paragrafoMatch(line), LAMBDA paragrafoMatch_ :
  With(incisoMatch(line), LAMBDA incisoMatch_ :
  With(alineaMatch(line), LAMBDA alineaMatch_ :
  With(itemMatch(line), LAMBDA itemMatch_ :
    IF st.titulo = <<>> /\ titleInfo # NoObject
    THEN StepTitulo(st, line, titleInfo)
    ELSE IF st.titulo # <<>> /\ st.ementa = <<>> /\ ~isStructuralElement(line)
    THEN StepEmenta(st, line)
    ELSE IF capMatch.ok
    THEN StepCapitulo(st, capMatch)
    ELSE IF artigoMatch_.ok
    THEN StepArtigo(st, artigoMatch_)
    ELSE IF paragrafoMatch_.ok /\ st.currentArtigo # 0
    THEN StepParagrafo(st, paragrafoMatch_)
    ELSE IF incisoMatch_.ok
    THEN StepInciso(st, incisoMatch_)
    ELSE IF alineaMatch_.ok /\ alineaMatch_.g2 # <<>> /\ st.incisoHome # NULL
    THEN StepAlinea(st, alineaMatch_)
    ELSE IF itemMatch_.ok /\ itemMatch_.g2 # <<>> /\ st.currentAlinea # 0
    THEN StepItem(st, itemMatch_)
    ELSE StepTexto(st, line))))))))

ParseLine(st, line) == [ParseBranch(st, line) EXCEPT !.i = st.i + 1]

\* lines 336-355: the LeiStructure returned
LeiOf(st) ==
  [titulo |-> IF st.titulo # <<>> THEN st.titulo ELSE TituloNaoIdentificado,
   numero |-> IF st.numero # <<>> THEN st.numero ELSE NumeroNaoIdentificado,
   origem |-> <<>>,
   artigos |-> st.artigos,
   tipo |-> st.tipo,
   ementa |-> IF st.ementa # <<>> THEN st.ementa ELSE NoText,
   data |-> st.data]

\* The first position >= p of s that holds c (Len(s)+1 if none)
RECURSIVE IndexOf(_, _, _)
IndexOf(s, p, c) == IF p > Len(s) \/ s[p] = c THEN p ELSE IndexOf(s, p + 1, c)

\* text.split('\n')
RECURSIVE SplitFrom(_, _)
SplitFrom(text, p) ==
  With(IndexOf(text, p, "\n"), LAMBDA e :
    IF e > Len(text) THEN <<From(text, p)>>
    ELSE <<SubSeq(text, p, e - 1)>> \o SplitFrom(text, e + 1))

split(text) == SplitFrom(text, 1)

\* line 172: the trimmed, non-empty lines
ParseLines(text) ==
  With(split(text), LAMBDA lines :
    SelectSeq([k \in 1..Len(lines) |-> trim(lines[k])], LAMBDA l : l # <<>>))

RECURSIVE ParseFrom(_, _, _)
ParseFrom(st, lines, k) ==
  IF k > Len(lines) THEN st ELSE ParseFrom(ParseLine(st, lines[k]), lines, k + 1)

parseHierarchicalText(text) == LeiOf(ParseFrom(ParseStart, ParseLines(text), 1))

\* lines 503-510: a line that one of the formal title templates matches
IsFormalTitle(line) ==
  \/ tituloLeiComplementar(line) > 0
  \/ tituloResolucao(line) > 0
  \/ tituloDecretoLegislativo(line) > 0
  \/ tituloProjetoLeiComplementar(line) > 0
  \/ tituloProjetoEmendaLeiComplementar(line) > 0
  \/ tituloEmendaLeiComplementar(line) > 0
  \/ tituloLei(line) > 0

(***************************************************************************)
(* TextParser.splitByHeaderPattern and splitByTitleSections.               *)
(***************************************************************************)
\* String.prototype.replace(/[^\d]/g, '')
digits(s) == SelectSeq(s, LAMBDA c : c \in Digit)

\* Array.prototype.join('\n')
RECURSIVE join(_)
join(lines) ==
  IF lines = <<>> THEN <<>>
  ELSE IF Len(lines) = 1 THEN lines[1]
  ELSE lines[1] \o <<"\n">> \o join(Tail(lines))

\* new RegExp(headerPattern, 'i') throws: a group or a class left open, a group
\* closed that was never opened, a quantifier with nothing to repeat
RECURSIVE OpenGroups(_, _, _)
OpenGroups(p, k, open) ==
  IF k > Len(p) THEN open
  ELSE IF p[k] = "\\" THEN OpenGroups(p, k + 2, open)
  ELSE IF p[k] = "[" THEN
         LET close == IndexOf(p, k + 1, "]")
         IN IF close > Len(p) THEN -1 ELSE OpenGroups(p, close + 1, open)
  ELSE IF p[k] = "(" THEN OpenGroups(p, k + 1, open + 1)
  ELSE IF p[k] = ")" THEN (IF open = 0 THEN -1 ELSE OpenGroups(p, k + 1, open - 1))
  ELSE OpenGroups(p, k + 1, open)

RegExpThrows(headerPattern) ==
  \/ OpenGroups(headerPattern, 1, 0) # 0
  \/ headerPattern[1] \in {"*", "+", "?"}
  \/ headerPattern[Len(headerPattern)] = "\\"

\* A slip in lines 435-439: the failure of new RegExp is not caught, and a
\* template that is no pattern leaves nothing to recognise a header with
UsesDefaultHeaderNoCatch(headerPattern) ==
  \/ headerPattern = NoText
  \/ headerPattern = <<>>

\* lines 432-440: the header template in use is AUTOGRAFO_HEADER when the
\* caller gives none, an empty one, or one that is no pattern
UsesDefaultHeader(headerPattern) ==
  \/ headerPattern = NoText
  \/ headerPattern = <<>>
  \/ RegExpThrows(headerPattern)

\* A slip in line 453: no header is taken as the page-repeated header
SameHeaderNever(headerNumber, currentNumber) == FALSE

\* line 453: headerNumber && currentNumber && headerNumber === currentNumber
SameHeader(headerNumber, currentNumber) ==
  /\ headerNumber # <<>>
  /\ currentNumber # NoText
  /\ headerNumber = currentNumber

\* line 443: regex.exec(line), for the header templates of the callers modelled:
\* those that leave regex = AUTOGRAFO_HEADER
HeaderExec(headerPattern, line) ==
  IF UsesDefaultHeader(headerPattern) THEN AUTOGRAFO_HEADER(line) ELSE NoMatch

\* A slip in lines 458-462: the header line that closes a block is not pushed
\* to the block it opens
HeaderStepDropsHeader(acc, line, headerPattern) ==
  With(HeaderExec(headerPattern, line), LAMBDA match :
  With(IF match.ok THEN digits(match.g1) ELSE <<>>, LAMBDA headerNumber :
  With(IF headerNumber # <<>> THEN headerNumber ELSE NoText, LAMBDA numberOrNull :
  With([acc EXCEPT !.current = Append(acc.current, line)], LAMBDA pushed :
    IF ~match.ok THEN pushed
    ELSE IF acc.current = <<>>
    THEN [pushed EXCEPT !.currentNumber = numberOrNull]
    ELSE IF SameHeader(headerNumber, acc.currentNumber)
    THEN pushed
    ELSE [sections |-> Append(acc.sections, trim(join(acc.current))),
          current |-> <<>>,
          currentNumber |-> numberOrNull]))))

\* lines 442-463: one turn of the loop over the lines
HeaderStep(acc, line, headerPattern) ==
  With(HeaderExec(headerPattern, line), LAMBDA match :
  With(IF match.ok THEN digits(match.g1) ELSE <<>>, LAMBDA headerNumber :
  With(IF headerNumber # <<>> THEN headerNumber ELSE NoText, LAMBDA numberOrNull :
  With([acc EXCEPT !.current = Append(acc.current, line)], LAMBDA pushed :
    IF ~match.ok THEN pushed
    ELSE IF acc.current = <<>>
    THEN [pushed EXCEPT !.currentNumber = numberOrNull]
    ELSE IF SameHeader(headerNumber, acc.currentNumber)
    THEN pushed
    ELSE [sections |-> Append(acc.sections, trim(join(acc.current))),
          current |-> <<line>>,
          currentNumber |-> numberOrNull]))))

RECURSIVE HeaderLoop(_, _, _, _)
HeaderLoop(acc, lines, k, headerPattern) ==
  IF k > Len(lines) THEN acc
  ELSE HeaderLoop(HeaderStep(acc, lines[k], headerPattern), lines, k + 1, headerPattern)

\* Array.prototype.filter(s => s.length > 0)
NonEmpty(sections) == SelectSeq(sections, LAMBDA x : x # <<>>)

\* lines 428-469: the blocks of the header pass (byHeader)
HeaderPass(text, headerPattern) ==
  With(HeaderLoop([sections |-> <<>>, current |-> <<>>, currentNumber |-> NoText],
                  split(text), 1, headerPattern), LAMBDA acc :
    NonEmpty(IF acc.current # <<>> THEN Append(acc.sections, trim(join(acc.current)))
             ELSE acc.sections))

\* lines 471-477: the lines a Lei, Lei Complementar or Resolução title matches
titleCount(lines) ==
  Cardinality({k \in 1..Len(lines) :
                 \/ tituloLei(lines[k]) > 0
                 \/ tituloLeiComplementar(lines[k]) > 0
                 \/ tituloResolucao(lines[k]) > 0})

\* lines 502-519: one turn of the loop of splitByTitleSections
TitleStep(acc, line) ==
  IF IsFormalTitle(line)
  THEN IF acc.started
       THEN [sections |-> Append(acc.sections, trim(join(acc.current))),
             current |-> <<line>>, started |-> TRUE]
       ELSE [acc EXCEPT !.current = Append(acc.current, line), !.started = TRUE]
  ELSE [acc EXCEPT !.current = Append(acc.current, line)]

RECURSIVE TitleLoop(_, _, _)
TitleLoop(acc, lines, k) ==
  IF k > Len(lines) THEN acc ELSE TitleLoop(TitleStep(acc, lines[k]), lines, k + 1)

\* TextParser.splitByTitleSections
splitByTitleSections(text) ==
  With(TitleLoop([sections |-> <<>>, current |-> <<>>, started |-> FALSE], split(text), 1),
       LAMBDA acc :
    NonEmpty(IF acc.current # <<>> THEN Append(acc.sections, trim(join(acc.current)))
             ELSE acc.sections))

\* TextParser.splitByHeaderPattern
splitByHeaderPattern(text, headerPattern) ==
  With(HeaderPass(text, headerPattern), LAMBDA byHeader :
    IF Len(byHeader) <= 1 /\ titleCount(split(text)) > 1
    THEN splitByTitleSections(text)
    ELSE byHeader)

(***************************************************************************)
(* DocumentService (src/src/services/leiService.ts).  A buffer is a record *)
(* of what its first bytes say it is (signature) and of the text the       *)
(* extraction library finds in it (body).  In a file name "~", "$" and "#" *)
(* are the ASCII characters themselves.                                    *)
(***************************************************************************)
startsWith(s, w) == Len(w) <= Len(s) /\ SubSeq(s, 1, Len(w)) = w
endsWith(s, w) == Len(w) <= Len(s) /\ SubSeq(s, Len(s) - Len(w) + 1, Len(s)) = w

\* lines 784-790: a temporary file of Office or LibreOffice, by its name
IsTemporaryFile(filename) ==
  LET base == LowerStr(filename)
  IN \/ startsWith(base, Chars("~$"))
     \/ startsWith(base, Chars(".~lock"))
     \/ endsWith(base, Chars(".docx#"))
     \/ endsWith(base, Chars(".doc#"))

MimeDocx == "application/vnd.openxmlformats-officedocument.wordprocessingml.document"
MimeDoc == "application/msword"

\* DocumentService.detectDocumentType
detectDocumentType(buffer) == buffer.signature

\* DocumentService.processDocx: the raw text mammoth extracts
processDocx(buffer) == buffer.body

\* DocumentService.processDoc, line 870
processDoc(buffer) == trim(CleanSpaceNewline(CleanTabs(buffer.body)))

\* lines 797-810: which extraction runs ("none": the type is not supported)
ExtractorOf(buffer, mimetype) ==
  IF detectDocumentType(buffer) = "docx" THEN "docx"
  ELSE IF detectDocumentType(buffer) = "doc" THEN "doc"
  ELSE IF mimetype = MimeDocx THEN "docx"
  ELSE IF mimetype = MimeDoc THEN "doc"
  ELSE "none"

\* DocumentService.processExtractedText
processExtractedText(extractedText, filename) ==
  With(cleanText(extractedText), LAMBDA cleaned :
  With(parseHierarchicalText(cleaned), LAMBDA parsed :
  With(extractEmenta(cleaned), LAMBDA ementa :
    [titulo |-> IF parsed.titulo # <<>> THEN parsed.titulo ELSE filename,
     numero |-> IF parsed.numero # <<>> THEN parsed.numero ELSE NumeroNaoIdentificado,
     origem |-> Chars("upload"),
     textoCompleto |-> cleaned,
     artigos |-> parsed.artigos,
     tipo |-> parsed.tipo,
     ementa |-> IF parsed.ementa # NoText /\ parsed.ementa # <<>> THEN parsed.ementa
                ELSE IF ementa # NoText THEN ementa
                ELSE NoText,
     data |-> parsed.data])))

\* a number in decimal, at least width digits
RECURSIVE Decimal(_, _)
Decimal(n, width) ==
  IF n < 10 /\ width <= 1 THEN <<DigitSeq[n + 1]>>
  ELSE Decimal(n \div 10, width - 1) \o <<DigitSeq[(n % 10) + 1]>>

\* line 837: new Date(lei.data).toISOString().slice(0, 10).  lei.data is the
\* midnight that starts the day in the zone of the server: in a zone ahead of
\* UTC that instant is on the day before in UTC
toISODate(data, aheadOfUTC) ==
  With(IF aheadOfUTC THEN RollDate(data.year, data.month, data.day - 1) ELSE data, LAMBDA utc :
    Decimal(utc.year, 4) \o <<"-">> \o Decimal(utc.month + 1, 2)
      \o <<"-">> \o Decimal(utc.day, 2))

\* A slip in line 839: the date left out of the key
DedupKeyNoDate(lei, aheadOfUTC) ==
  IF digits(lei.numero) # <<>> THEN digits(lei.numero) \o <<"|">>
  ELSE Chars("no-number|") \o toUpperCase(trim(lei.titulo))

\* lines 836-839: the key of an Act
DedupKey(lei, aheadOfUTC) ==
  With(digits(lei.numero), LAMBDA numNorm :
  With(IF lei.data # NoObject THEN toISODate(lei.data, aheadOfUTC) ELSE <<>>, LAMBDA dateKey :
  With(toUpperCase(trim(lei.titulo)), LAMBDA titleKey :
    IF numNorm # <<>> THEN numNorm \o <<"|">> \o dateKey
    ELSE Chars("no-number|") \o titleKey)))

\* A slip in lines 841-844: only the key of the Act just before is remembered
RECURSIVE DedupConsecutive(_, _, _, _, _)
DedupConsecutive(results, k, seen, deduped, aheadOfUTC) ==
  IF k > Len(results) THEN deduped
  ELSE With(DedupKey(results[k], aheadOfUTC), LAMBDA key :
         IF key \notin seen
         THEN DedupConsecutive(results, k + 1, {key}, Append(deduped, results[k]), aheadOfUTC)
         ELSE DedupConsecutive(results, k + 1, {key}, deduped, aheadOfUTC))

\* lines 832-845: the Acts whose key no Act before them has
RECURSIVE Dedup(_, _, _, _, _)
Dedup(results, k, seen, deduped, aheadOfUTC) ==
  IF k > Len(results) THEN deduped
  ELSE With(DedupKey(results[k], aheadOfUTC), LAMBDA key :
         IF key \notin seen
         THEN Dedup(results, k + 1, seen \cup {key}, Append(deduped, results[k]), aheadOfUTC)
         ELSE Dedup(results, k + 1, seen, deduped, aheadOfUTC))

ErroNaoSuportado == "Tipo de arquivo n~o suportado"
ErroSemTexto == "N~o foi poss%vel extrair texto do documento"

\* lines 816-828: the Acts of the sections of the text
ResultsOf(extractedText, filename, headerPattern) ==
  With(cleanText(extractedText), LAMBDA cleanedText :
  With(splitByHeaderPattern(cleanedText, headerPattern), LAMBDA sections :
    IF sections = <<>>
    THEN <<processExtractedText(cleanedText, filename)>>
    ELSE [k \in 1..Len(sections) |-> processExtractedText(sections[k], filename)]))

\* DocumentService.processWordDocumentMultiple: what it returns (leis), or the
\* AppError it throws (raised)
processWordDocumentMultiple(buffer, filename, mimetype, headerPattern, aheadOfUTC) ==
  With(ExtractorOf(buffer, mimetype), LAMBDA extractor :
  With(IF extractor = "docx" THEN processDocx(buffer) ELSE processDoc(buffer),
       LAMBDA extractedText :
    IF IsTemporaryFile(filename) THEN [raised |-> NULL, leis |-> <<>>]
    ELSE IF extractor = "none" THEN [raised |-> ErroNaoSuportado, leis |-> <<>>]
    ELSE IF trim(extractedText) = <<>> THEN [raised |-> ErroSemTexto, leis |-> <<>>]
    ELSE [raised |-> NULL,
          leis |-> Dedup(ResultsOf(extractedText, filename, headerPattern), 1, {}, <<>>,
                         aheadOfUTC)]))

(***************************************************************************)
(* State.  raw, norm: a text and what TextParser.cleanText made of it.     *)
(* block, scan: the trimmed non-empty lines parseHierarchicalText has      *)
(* scanned so far and the locals of its loop.  seg: a call of              *)
(* splitByHeaderPattern, its text given line by line.  doc: a call of      *)
(* processWordDocumentMultiple, the body of its buffer given line by line. *)
(* svc: the DocumentService and the cacheManager of the process: the       *)
(* objects in memory (heap), as they were when created (pristine), the     *)
(* entries of the cache, and the calls of processWordDocument answered so   *)
(* far, each with the file it was given, the object it returned and the    *)
(* value that object had.                                                  *)
(* db: a call of LeiService.saveLei, the Act given article by article, and *)
(* the records its transaction created; lei is the row of the Act, as      *)
(* saveLei created it or as replaceLei last updated it.                    *)
(***************************************************************************)
VARIABLES raw, norm, block, scan, seg, doc, svc, db

vars == <<raw, norm, block, scan, seg, doc, svc, db>>

NormStart == [pc |-> "input", once |-> <<>>, twice |-> <<>>]

SegStart ==
  [pc |-> "input", lines |-> <<>>, headerPattern |-> NoText,
   byHeader |-> <<>>, sections |-> <<>>]

DocStart ==
  [pc |-> "idle", request |-> NoObject, lines |-> <<>>,
   out |-> [raised |-> NULL, leis |-> <<>>]]

SvcStart == [heap |-> <<>>, pristine |-> <<>>, cache |-> {}, calls |-> <<>>]

DbStart ==
  [pc |-> "input", artigos |-> <<>>, capitulos |-> <<>>, saved |-> <<>>, lei |-> NoObject]

(***************************************************************************)
(* cleanText applied to a text, and to its own output.                     *)
(***************************************************************************)
MaxLen == 4
Alphabet == {"a", "n", "1", "^", "*", ".", " ", "\t", "\n"}

CleanInit ==
  /\ raw = <<>> /\ norm = NormStart /\ block = <<>> /\ scan = ParseStart
  /\ seg = SegStart /\ doc = DocStart /\ svc = SvcStart /\ db = DbStart

TypeChar ==
  /\ norm.pc = "input"
  /\ Len(raw) < MaxLen
  /\ \E c \in Alphabet : raw' = Append(raw, c)
  /\ UNCHANGED <<norm, block, scan, seg, doc, svc, db>>

Normalize ==
  /\ norm.pc = "input"
  /\ norm' = [pc |-> "once", once |-> cleanText(raw), twice |-> <<>>]
  /\ UNCHANGED <<raw, block, scan, seg, doc, svc, db>>

Renormalize ==
  /\ norm.pc = "once"
  /\ norm' = [norm EXCEPT !.pc = "twice", !.twice = cleanText(norm.once)]
  /\ UNCHANGED <<raw, block, scan, seg, doc, svc, db>>

CleanNext == TypeChar \/ Normalize \/ Renormalize

SpecClean == CleanInit /\ [][CleanNext]_vars

(***************************************************************************)
(* parseHierarchicalText scanning a block line by line: every prefix of    *)
(* the lines is a block of its own, and LeiOf(scan) what is returned for   *)
(* it.                                                                     *)
(***************************************************************************)
MaxLines == 4

\* autógrafo header lines: the label, then the number N
HeaderForms ==
  {[text |-> Chars("Aut&grafo de Lei n^ ") \o Chars("10"),
    n |-> Chars("10"), complementar |-> FALSE],
   [text |-> Chars("AUTOGRAFOS DE LEI COMPLEMENTAR N ") \o Chars("2.992"),
    n |-> Chars("2.992"), complementar |-> TRUE],
   [text |-> Chars("Autografo de Lei ") \o Chars("12/2020"),
    n |-> Chars("12/2020"), complementar |-> FALSE]}

HeaderLines == {h.text : h \in HeaderForms}

ParseCorpus ==
  {Chars("Lei n^ 8"), Chars("Disp&e"), Chars("Cap%tulo I"), Chars("Art. 1^ x"),
   Chars("$ 1^ p"), Chars("I - a"), Chars("a) b"), Chars("1. i")} \cup HeaderLines

ParseInit ==
  /\ raw = <<>> /\ norm = NormStart /\ block = <<>> /\ scan = ParseStart
  /\ seg = SegStart /\ doc = DocStart /\ svc = SvcStart /\ db = DbStart

ScanLine ==
  /\ Len(block) < MaxLines
  /\ \E line \in ParseCorpus :
       /\ block' = Append(block, line)
       /\ scan' = ParseLine(scan, line)
  /\ UNCHANGED <<raw, norm, seg, doc, svc, db>>

ParseNext == ScanLine

SpecParse == ParseInit /\ [][ParseNext]_vars

(***************************************************************************)
(* parseHierarchicalText scanning a block of the canonical shape: a title  *)
(* line, a plain line, an Article, a Paragraph, a Subsection, a Clause and *)
(* an Item marker, a second Article marker.                                *)
(***************************************************************************)
TitleLines == {Chars("LEI N^ 8.080"), Chars("Lei Complementar n^ 9")}
PlainLines == {Chars("Disp&e sobre sa#de."), Chars("texto")}
ArticleMarkers == {Chars("Art. 1^ Esta lei"), Chars("Artigo 2* - y")}
ParagraphMarkers == {Chars("$ 1^ Entende-se"), Chars("Par@grafo #nico. q")}
SubsectionMarkers == {Chars("I - a promo=~o;"), Chars("IV) b")}
ClauseMarkers == {Chars("a) a=&es;"), Chars("b. e"), Chars("c - f")}
ItemMarkers == {Chars("1. controle;"), Chars("2) j")}

ScanOf(lines) ==
  /\ \E line \in lines :
       /\ block' = Append(block, line)
       /\ scan' = ParseLine(scan, line)
  /\ UNCHANGED <<raw, norm, seg, doc, svc, db>>

ScanTitle == Len(block) = 0 /\ ScanOf(TitleLines)
ScanPlain == Len(block) = 1 /\ ScanOf(PlainLines)
ScanArticle == Len(block) \in {2, 7} /\ ScanOf(ArticleMarkers)
ScanParagraph == Len(block) = 3 /\ ScanOf(ParagraphMarkers)
ScanSubsection == Len(block) = 4 /\ ScanOf(SubsectionMarkers)
ScanClause == Len(block) = 5 /\ ScanOf(ClauseMarkers)
ScanItem == Len(block) = 6 /\ ScanOf(ItemMarkers)

FixtureNext ==
  \/ ScanTitle \/ ScanPlain \/ ScanArticle \/ ScanParagraph
  \/ ScanSubsection \/ ScanClause \/ ScanItem

SpecFixture == ParseInit /\ [][FixtureNext]_vars

\* C3: the Act returned for a block of the canonical shape has exactly 2
\* articles; article 1 has exactly 1 paragraph, that paragraph exactly 1
\* subsection, that subsection exactly 1 clause, that clause exactly 1 item;
\* article 2 has no children; the plain line is the summary.
C3_FixtureShape ==
  Len(block) = 8 =>
    LET lei == LeiOf(scan)
    IN /\ Len(lei.artigos) = 2
       /\ Len(lei.artigos[1].paragrafos) = 1
       /\ Len(lei.artigos[1].paragrafos[1].incisos) = 1
       /\ Len(lei.artigos[1].paragrafos[1].incisos[1].alineas) = 1
       /\ Len(lei.artigos[1].paragrafos[1].incisos[1].alineas[1].itens) = 1
       /\ lei.artigos[2].paragrafos = <<>>
       /\ lei.artigos[2].incisos = <<>>
       /\ lei.ementa = block[2]

\* C3 witness: a block of the canonical shape, its clause labelled a, parsed so
C3_Witness ==
  /\ Len(block) = 8
  /\ block[6] = Chars("a) a=&es;")
  /\ C3_FixtureShape

(***************************************************************************)
(* splitByHeaderPattern applied to a text of up to MaxSegLines lines.      *)
(***************************************************************************)
MaxSegLines == 4

\* autógrafo header lines and the digits of their number (none: no digit)
SegHeaderForms ==
  {[text |-> Chars("Aut&grafo de Lei n^ 10"), n |-> Chars("10")],
   [text |-> Chars("AUTOGRAFOS DE LEI N 1.0"), n |-> Chars("10")],
   [text |-> Chars("Aut&grafo de Lei n^ 11"), n |-> Chars("11")],
   [text |-> Chars("Aut&grafo de Lei n^ -"), n |-> <<>>]}

SegHeaderLines == {h.text : h \in SegHeaderForms}

SegCorpus == SegHeaderLines \cup {Chars("Art. 1^ x"), <<>>, Chars("Lei n^ 5")}

\* the templates a caller gives: none, an empty one, ones that are no pattern
HeaderPatterns == {NoText, <<>>, Chars("("), Chars("[0-9")}

SplitInit ==
  /\ raw = <<>> /\ norm = NormStart /\ block = <<>> /\ scan = ParseStart
  /\ seg = SegStart /\ doc = DocStart /\ svc = SvcStart /\ db = DbStart

SegAddLine ==
  /\ seg.pc = "input"
  /\ Len(seg.lines) < MaxSegLines
  /\ \E line \in SegCorpus : seg' = [seg EXCEPT !.lines = Append(@, line)]
  /\ UNCHANGED <<raw, norm, block, scan, doc, svc, db>>

SegSplit ==
  /\ seg.pc = "input"
  /\ \E headerPattern \in HeaderPatterns :
       seg' = [seg EXCEPT !.pc = "split",
                          !.headerPattern = headerPattern,
                          !.byHeader = HeaderPass(join(seg.lines), headerPattern),
                          !.sections = splitByHeaderPattern(join(seg.lines), headerPattern)]
  /\ UNCHANGED <<raw, norm, block, scan, doc, svc, db>>

SplitNext == SegAddLine \/ SegSplit

SpecSplit == SplitInit /\ [][SplitNext]_vars

\* the digits of the number of header line k of lines
SegNumber(lines, k) == (CHOOSE h \in SegHeaderForms : h.text = lines[k]).n

\* the header lines that start a run: the first header line, a header line
\* without a number, one whose number is not that of the header line before it
RunStarts(lines) ==
  {k \in 1..Len(lines) :
     /\ lines[k] \in SegHeaderLines
     /\ LET before == {j \in 1..(k - 1) : lines[j] \in SegHeaderLines}
            last == CHOOSE j \in before : \A i \in before : i <= j
        IN \/ before = {}
           \/ SegNumber(lines, k) = <<>>
           \/ SegNumber(lines, k) # SegNumber(lines, last)}

\* C4: for a text that begins with a header line, the header pass returns as
\* many blocks as there are maximal runs of consecutive header lines with the
\* same number: a header line with the number of the block being accumulated
\* starts no block.
C4_BlocksAreRuns ==
  (seg.pc = "split" /\ Len(seg.lines) >= 1 /\ seg.lines[1] \in SegHeaderLines) =>
    Len(seg.byHeader) = Cardinality(RunStarts(seg.lines))

\* C4 witness: two header lines numbered 10, a body line between them, then a
\* header line numbered 11: 2 blocks
C4_Witness ==
  /\ seg.pc = "split"
  /\ seg.lines = <<Chars("Aut&grafo de Lei n^ 10"), Chars("Art. 1^ x"),
                   Chars("AUTOGRAFOS DE LEI N 1.0"), Chars("Aut&grafo de Lei n^ 11")>>
  /\ Len(seg.byHeader) = 2
  /\ seg.sections = seg.byHeader

(***************************************************************************)
(* processWordDocumentMultiple called with an uploaded file whose text has *)
(* up to MaxDocLines lines.                                                *)
(***************************************************************************)
MaxDocLines == 2

\* the uploads: file name, buffer signature, declared type, whether the zone
\* of the server is ahead of UTC
Requests ==
  {[filename |-> Chars("lei.docx"), signature |-> "docx", mimetype |-> MimeDocx,
    aheadOfUTC |-> FALSE],
   [filename |-> Chars("lei.docx"), signature |-> "unknown", mimetype |-> MimeDocx,
    aheadOfUTC |-> TRUE],
   [filename |-> Chars("lei.doc"), signature |-> "doc", mimetype |-> MimeDoc,
    aheadOfUTC |-> FALSE],
   [filename |-> Chars("~$lei.docx"), signature |-> "docx", mimetype |-> MimeDocx,
    aheadOfUTC |-> FALSE],
   [filename |-> Chars("lei.txt"), signature |-> "unknown", mimetype |-> "text/plain",
    aheadOfUTC |-> FALSE]}

DocCorpus ==
  {Chars("Lei n^ 7"), Chars("LEI N^ 7"), Chars("Lei n^ 7, de 1 de janeiro de 2020"),
   Chars("Lei n^ -"), Chars("LEI n^ -"), Chars("Lei n^ ."),
   Chars("Aut&grafo de Lei n^ 7"), Chars("Art. 1^ x"), Chars("Disp&e"), Chars("a^na"),
   Chars(" \t")}

DocInit ==
  /\ raw = <<>> /\ norm = NormStart /\ block = <<>> /\ scan = ParseStart
  /\ seg = SegStart /\ doc = DocStart /\ svc = SvcStart /\ db = DbStart

Upload ==
  /\ doc.pc = "idle"
  /\ \E request \in Requests : doc' = [doc EXCEPT !.pc = "input", !.request = request]
  /\ UNCHANGED <<raw, norm, block, scan, seg, svc, db>>

DocAddLine ==
  /\ doc.pc = "input"
  /\ Len(doc.lines) < MaxDocLines
  /\ \E line \in DocCorpus : doc' = [doc EXCEPT !.lines = Append(@, line)]
  /\ UNCHANGED <<raw, norm, block, scan, seg, svc, db>>

\* the buffer of the upload
BufferOf(d) == [signature |-> d.request.signature, body |-> join(d.lines)]

Process ==
  /\ doc.pc = "input"
  /\ doc' = [doc EXCEPT
               !.pc = "done",
               !.out = processWordDocumentMultiple(BufferOf(doc), doc.request.filename,
                         doc.request.mimetype, NoText, doc.request.aheadOfUTC)]
  /\ UNCHANGED <<raw, norm, block, scan, seg, svc, db>>

DocNext == Upload \/ DocAddLine \/ Process

SpecDoc == DocInit /\ [][DocNext]_vars

\* the call went as far as extracting text
Extracted ==
  /\ doc.pc = "done"
  /\ ~IsTemporaryFile(doc.request.filename)
  /\ ExtractorOf(BufferOf(doc), doc.request.mimetype) # "none"

\* the text extracted from the buffer
ExtractedText ==
  IF ExtractorOf(BufferOf(doc), doc.request.mimetype) = "docx"
  THEN processDocx(BufferOf(doc)) ELSE processDoc(BufferOf(doc))

\* the Acts of the sections, before deduplication
Parsed == ResultsOf(ExtractedText, doc.request.filename, NoText)

HasNumber(lei) == \E k \in 1..Len(lei.numero) : lei.numero[k] \in Digit

\* the key of the claim, as a tuple: the digits and the day, or the title
KeyOf(lei) ==
  IF HasNumber(lei) THEN <<"number", digits(lei.numero), lei.data>>
  ELSE <<"no-number", toUpperCase(trim(lei.titulo))>>

\* the indices of the Acts that are the first of their key
Firsts(results) ==
  {k \in 1..Len(results) : \A j \in 1..(k - 1) : KeyOf(results[j]) # KeyOf(results[k])}

\* the subsequence of results at the indices of keep
RECURSIVE Subsequence(_, _, _)
Subsequence(results, keep, k) ==
  IF k > Len(results) THEN <<>>
  ELSE (IF k \in keep THEN <<results[k]>> ELSE <<>>) \o Subsequence(results, keep, k + 1)

\* the Acts returned are the first Act of each key, in input order
FirstOfEachKey ==
  (Extracted /\ doc.out.raised = NULL) =>
    doc.out.leis = Subsequence(Parsed, Firsts(Parsed), 1)

\* the Acts returned hold, at two places, an Act of the key of a and an Act of
\* the key of b: the two have not collapsed into one
BothKept(a, b) ==
  \E m, n \in 1..Len(doc.out.leis) :
    /\ m # n
    /\ KeyOf(doc.out.leis[m]) = KeyOf(a)
    /\ KeyOf(doc.out.leis[n]) = KeyOf(b)

\* two Acts with the same digits and the same date: the later one is dropped
SameNumberCollapses ==
  (Extracted /\ doc.out.raised = NULL) =>
    \A i, j \in 1..Len(Parsed) :
      (i < j /\ HasNumber(Parsed[i]) /\ HasNumber(Parsed[j])
         /\ digits(Parsed[i].numero) = digits(Parsed[j].numero)
         /\ Parsed[i].data = Parsed[j].data) =>
        Len(doc.out.leis) < Len(Parsed) /\ ~BothKept(Parsed[i], Parsed[j])

\* C5 as claimed: the Acts returned are the first Act of each key, two Acts
\* with the same digits and date collapse, and two Acts without a number and
\* with different titles are both kept.
C5_DifferentTitlesKept ==
  /\ FirstOfEachKey
  /\ SameNumberCollapses
  /\ (Extracted /\ doc.out.raised = NULL) =>
       \A i, j \in 1..Len(Parsed) :
         (i < j /\ ~HasNumber(Parsed[i]) /\ ~HasNumber(Parsed[j])
            /\ Parsed[i].titulo # Parsed[j].titulo) =>
           BothKept(Parsed[i], Parsed[j])

\* C5 as amended: the Acts returned are the first Act of each key, two Acts
\* with the same digits and date collapse, and two Acts without a number whose
\* titles differ after trimming and upper-casing do not collapse: each of the
\* two titles keeps its first Act.
C5_FirstOfEachKey ==
  /\ FirstOfEachKey
  /\ SameNumberCollapses
  /\ (Extracted /\ doc.out.raised = NULL) =>
       \A i, j \in 1..Len(Parsed) :
         (i < j /\ ~HasNumber(Parsed[i]) /\ ~HasNumber(Parsed[j])
            /\ toUpperCase(trim(Parsed[i].titulo)) # toUpperCase(trim(Parsed[j].titulo))) =>
           BothKept(Parsed[i], Parsed[j])

\* C5 witness: two Acts numbered 7 without a date, their titles not the same:
\* the first alone is returned
C5_Witness ==
  /\ Extracted /\ doc.out.raised = NULL
  /\ Len(Parsed) = 2
  /\ Parsed[1].titulo # Parsed[2].titulo
  /\ digits(Parsed[1].numero) = Chars("7") /\ digits(Parsed[2].numero) = Chars("7")
  /\ doc.out.leis = <<Parsed[1]>>

\* no line of the text matches a title, header or structural template
NoTemplate(text) ==
  \A k \in 1..Len(split(text)) :
    LET line == trim(split(text)[k])
    IN /\ ~IsFormalTitle(line)
       /\ ~AUTOGRAFO_HEADER(line).ok
       /\ ~isStructuralElement(line)

\* C6: a non-blank text no line of which matches a title, header or
\* structural template gives exactly 1 Act, with no article and with the
\* normalized text as textoCompleto.
C6_OneActWithTheText ==
  (/\ Extracted
   /\ trim(ExtractedText) # <<>>
   /\ NoTemplate(ExtractedText)
   /\ NoTemplate(cleanText(ExtractedText))) =>
    /\ doc.out.raised = NULL
    /\ Len(doc.out.leis) = 1
    /\ doc.out.leis[1].artigos = <<>>
    /\ doc.out.leis[1].textoCompleto = cleanText(ExtractedText)

\* C7: a blank extracted text gives an empty sequence of Acts and no error.
C7_BlankGivesNoAct ==
  (Extracted /\ trim(ExtractedText) = <<>>) =>
    doc.out.raised = NULL /\ doc.out.leis = <<>>

\* no line of the text is a title: formal, or an autógrafo header
NoTitle(text) ==
  \A k \in 1..Len(split(text)) :
    LET line == trim(split(text)[k])
    IN ~IsFormalTitle(line) /\ ~AUTOGRAFO_HEADER(line).ok

\* C8: the Act of a block no line of which matches a title template has the
\* file name as title and "Número não identificado" as number.
C8_TitleIsFileName ==
  (Extracted /\ doc.out.raised = NULL) =>
    \A k \in 1..Len(doc.out.leis) :
      NoTitle(doc.out.leis[k].textoCompleto) =>
        /\ doc.out.leis[k].titulo = doc.request.filename
        /\ doc.out.leis[k].numero = NumeroNaoIdentificado

\* the k-th element of a child list has ordem = k
Numbered(list) == \A k \in 1..Len(list) : list[k].ordem = k

IncisosNumbered(incisos) ==
  /\ Numbered(incisos)
  /\ \A i \in 1..Len(incisos) :
       /\ Numbered(incisos[i].alineas)
       /\ \A a \in 1..Len(incisos[i].alineas) : Numbered(incisos[i].alineas[a].itens)

\* C1: in the Act returned for the lines scanned, the k-th element of every
\* child list (articles, paragraphs, subsections of an article and of a
\* paragraph, clauses, items) has ordem = k.
C1_OrdemIsPosition ==
  LET lei == LeiOf(scan)
  IN /\ Numbered(lei.artigos)
     /\ \A a \in 1..Len(lei.artigos) :
          /\ Numbered(lei.artigos[a].paragrafos)
          /\ IncisosNumbered(lei.artigos[a].incisos)
          /\ \A p \in 1..Len(lei.artigos[a].paragrafos) :
               IncisosNumbered(lei.artigos[a].paragrafos[p].incisos)

LevelDepth ==
  [l \in Levels |->
     CASE l = "capitulo" -> 1 [] l = "artigo" -> 2 [] l = "paragrafo" -> 3
       [] l = "inciso" -> 4 [] l = "alinea" -> 5]

\* C2: right after a line is consumed as a Chapter marker the Article,
\* Paragraph, Subsection and Clause pointers are empty; after an Article
\* marker the Paragraph, Subsection and Clause pointers; after a Paragraph
\* marker the Subsection and Clause pointers; after a Subsection marker the
\* Clause pointer.  Hence a node is only ever appended under a parent that
\* was opened after the last marker of every level shallower than the parent.
C2_DescendantReset ==
  /\ scan.consumedAs = "capitulo" =>
       /\ scan.currentArtigo = 0 /\ scan.currentParagrafo = 0
       /\ scan.currentInciso = 0 /\ scan.incisoHome = NULL /\ scan.currentAlinea = 0
  /\ scan.consumedAs = "artigo" =>
       /\ scan.currentParagrafo = 0
       /\ scan.currentInciso = 0 /\ scan.incisoHome = NULL /\ scan.currentAlinea = 0
  /\ scan.consumedAs = "paragrafo" =>
       scan.currentInciso = 0 /\ scan.incisoHome = NULL /\ scan.currentAlinea = 0
  /\ scan.consumedAs = "inciso" => scan.currentAlinea = 0
  /\ scan.appendedTo \in Levels =>
       \A l \in Levels :
         LevelDepth[l] < LevelDepth[scan.appendedTo] =>
           scan.openedAt[scan.appendedTo] > scan.markerAt[l]

\* C2 witness: a chapter marker was scanned while an article, a paragraph
\* and a subsection were open
C2_Witness ==
  /\ scan.consumedAs = "capitulo"
  /\ scan.markerAt["artigo"] > 0 /\ scan.markerAt["paragrafo"] > 0
  /\ scan.markerAt["inciso"] > 0

\* no line of the block is a formal title
NoFormalTitle == \A k \in 1..Len(block) : ~IsFormalTitle(block[k])

\* h is the first autógrafo header line of the block
FirstHeaderIs(h) ==
  \E k \in 1..Len(block) :
    /\ block[k] = h.text
    /\ \A j \in 1..(k - 1) : block[j] \notin HeaderLines

C9_Idempotent == norm.pc = "twice" => norm.twice = norm.once

(***************************************************************************)
(* The header template of splitByHeaderPattern.                            *)
(***************************************************************************)
\* the caller gave a template and new RegExp rejects it
InvalidTemplate ==
  /\ seg.headerPattern \notin {NoText, <<>>}
  /\ RegExpThrows(seg.headerPattern)

\* C11: splitByHeaderPattern called with a custom header template that is
\* not a valid pattern returns exactly the blocks it returns for the same text
\* when no custom template is given.
C11_InvalidTemplateIsDefault ==
  (seg.pc = "split" /\ InvalidTemplate) =>
    seg.sections = splitByHeaderPattern(join(seg.lines), NoText)

\* C11 witness: with the template "(" two autógrafo headers of different
\* numbers are recognised and give two blocks
C11_Witness ==
  /\ seg.pc = "split"
  /\ seg.headerPattern = Chars("(")
  /\ seg.lines = <<Chars("Aut&grafo de Lei n^ 10"), Chars("Art. 1^ x"),
                   Chars("Aut&grafo de Lei n^ 11")>>
  /\ Len(seg.sections) = 2

(***************************************************************************)
(* DocumentService.processWordDocument, the cacheManager it consults, and  *)
(* uploadBatch, which sets origem in the Act a call returned.  An object   *)
(* is known by its place in the heap.                                      *)
(***************************************************************************)
\* CacheManager.generateFileKey: `upload:${filename}:${size}`
generateFileKey(filename, size) ==
  Chars("upload:") \o filename \o <<":">> \o Decimal(size, 1)

\* CacheManager.get over a NodeCache with useClones: false: the very object
\* that was set under the key (0: no entry)
CacheGet(cache, key) ==
  IF \E e \in cache : e.key = key THEN (CHOOSE e \in cache : e.key = key).ref ELSE 0

\* CacheManager.set
CacheSet(cache, key, ref) == {e \in cache : e.key # key} \cup {[key |-> key, ref |-> ref]}

\* the message of lines 706-710 ("e" for the accented letter)
ErroTemporario == "Arquivo tempor@rio do Office/LibreOffice n~o e process@vel"

\* an UploadResult of a call that failed
Failure(error, filename) ==
  [success |-> FALSE, error |-> error, data |-> NoObject, filename |-> filename]

\* lines 722-766: the UploadResult built when the cache has no entry
UploadResultOf(buffer, filename, mimetype) ==
  With(ExtractorOf(buffer, mimetype), LAMBDA extractor :
  With(IF extractor = "docx" THEN processDocx(buffer) ELSE processDoc(buffer),
       LAMBDA extractedText :
    IF extractor = "none" THEN Failure(ErroNaoSuportado, filename)
    ELSE IF trim(extractedText) = <<>> THEN Failure(ErroSemTexto, filename)
    ELSE [success |-> TRUE, error |-> NULL,
          data |-> processExtractedText(extractedText, filename),
          filename |-> filename]))

\* a new object in memory
Alloc(s, object) ==
  [s EXCEPT !.heap = Append(@, object), !.pristine = Append(@, object)]

\* the call answers with the object at ref
Return(s, ref) ==
  [s EXCEPT !.calls = Append(@, [ref |-> ref, result |-> s.heap[ref]])]

\* lines 718-721: return cachedResult
CachedResult(s, cachedResult) == Return(s, cachedResult)

\* DocumentService.processWordDocument
processWordDocument(s, buffer, filename, mimetype) ==
  With(generateFileKey(filename, buffer.length), LAMBDA cacheKey :
  With(CacheGet(s.cache, cacheKey), LAMBDA cachedResult :
  With(Len(s.heap) + 1, LAMBDA fresh :
    IF IsTemporaryFile(filename)
    THEN Return(Alloc(s, Failure(ErroTemporario, filename)), fresh)
    ELSE IF cachedResult # 0 THEN CachedResult(s, cachedResult)
    ELSE With(UploadResultOf(buffer, filename, mimetype), LAMBDA result :
           Return([Alloc(s, result) EXCEPT
                     !.cache = IF result.success THEN CacheSet(@, cacheKey, fresh) ELSE @],
                  fresh)))))

\* path.extname: from the last "." of the name on
RECURSIVE LastDot(_, _)
LastDot(name, k) ==
  IF k <= 1 THEN Len(name) + 1 ELSE IF name[k] = "." THEN k ELSE LastDot(name, k - 1)

\* saveFile, lines 154-167 of utils/logger.ts: the name the file is stored
\* under; "T" stands for the timestamp suffix given when the name is taken
storedNameOf(originalName, taken) ==
  With(LastDot(originalName, Len(originalName)), LAMBDA dot :
    IF taken
    THEN SubSeq(originalName, 1, dot - 1) \o Chars("-T") \o From(originalName, dot)
    ELSE originalName)

\* getPublicUrl
getPublicUrl(storedName) == Chars("/files/") \o storedName

(***************************************************************************)
(* Up to MaxCalls calls of processWordDocument in one process, uploadBatch *)
(* setting origem in what a call returned, entries of the cache expiring.  *)
(***************************************************************************)
MaxCalls == 3

Files ==
  {[filename |-> Chars("lei.docx"), mimetype |-> MimeDocx,
    buffer |-> [signature |-> "docx", body |-> Chars("Lei n^ 7\nArt. 1^ x"), length |-> 20]],
   [filename |-> Chars("lei.docx"), mimetype |-> MimeDocx,
    buffer |-> [signature |-> "docx", body |-> Chars("Lei n^ 8\nArt. 1^ x"), length |-> 20]],
   [filename |-> Chars("b.doc"), mimetype |-> MimeDoc,
    buffer |-> [signature |-> "doc", body |-> Chars("Disp&e"), length |-> 9]],
   [filename |-> Chars("b.doc"), mimetype |-> MimeDoc,
    buffer |-> [signature |-> "doc", body |-> Chars(" \t"), length |-> 7]],
   [filename |-> Chars("~$lei.docx"), mimetype |-> MimeDocx,
    buffer |-> [signature |-> "docx", body |-> Chars("Lei n^ 7"), length |-> 12]],
   [filename |-> Chars("lei.txt"), mimetype |-> "text/plain",
    buffer |-> [signature |-> "unknown", body |-> Chars("Lei n^ 7"), length |-> 8]]}

ServiceInit ==
  /\ raw = <<>> /\ norm = NormStart /\ block = <<>> /\ scan = ParseStart
  /\ seg = SegStart /\ doc = DocStart /\ svc = SvcStart /\ db = DbStart

\* s, with the file of its last call noted in the record of that call
CalledWith(s, file) ==
  [s EXCEPT !.calls[Len(s.calls)] = [ref |-> @.ref, result |-> @.result, file |-> file]]

ProcessWordDocument ==
  /\ Len(svc.calls) < MaxCalls
  /\ \E file \in Files :
       svc' = CalledWith(processWordDocument(svc, file.buffer, file.filename, file.mimetype),
                         file)
  /\ UNCHANGED <<raw, norm, block, scan, seg, doc, db>>

\* uploadBatch, lines 224-227: processResult.data.origem = fileUrl, on what the
\* last call returned
SetOrigem ==
  /\ svc.calls # <<>>
  /\ LET ref == svc.calls[Len(svc.calls)].ref
     IN /\ svc.heap[ref].success
        /\ \E taken \in BOOLEAN :
             svc' = [svc EXCEPT !.heap[ref].data.origem =
                       getPublicUrl(storedNameOf(svc.heap[ref].filename, taken))]
  /\ UNCHANGED <<raw, norm, block, scan, seg, doc, db>>

\* NodeCache, stdTTL: an entry expires
Expire ==
  /\ \E e \in svc.cache : svc' = [svc EXCEPT !.cache = @ \ {e}]
  /\ UNCHANGED <<raw, norm, block, scan, seg, doc, db>>

ServiceNext == ProcessWordDocument \/ SetOrigem \/ Expire

SpecService == ServiceInit /\ [][ServiceNext]_vars

\* C12: the Act returned by one call of processWordDocument is never the same
\* object as the Act returned by another call, and what a call returns is
\* the object as it was created: no Act a caller has changed since.
C12_NoSharedAct ==
  /\ \A i, j \in 1..Len(svc.calls) :
       (i < j /\ svc.calls[i].result.success /\ svc.calls[j].result.success)
         => svc.calls[i].ref # svc.calls[j].ref
  /\ \A j \in 1..Len(svc.calls) : svc.calls[j].result = svc.pristine[svc.calls[j].ref]

(***************************************************************************)
(* LeiService.saveLei (src/src/services/leiService.ts): the chapter and    *)
(* article records its transaction creates.  The id of a record is the     *)
(* order of its creation.                                                  *)
(***************************************************************************)
\* lines 84 and 103-105:
\* `${cap.ordem}|${cap.numero ?? ''}|${(cap.nome ?? '').toUpperCase()}`
CapKey(cap) ==
  Decimal(cap.ordem, 1) \o <<"|">>
    \o (IF cap.numero # NoText THEN cap.numero ELSE <<>>) \o <<"|">>
    \o toUpperCase(IF cap.nome # NoText THEN cap.nome ELSE <<>>)

\* Map.prototype.get (0: undefined)
MapGet(capMap, key) ==
  IF \E e \in capMap : e.key = key THEN (CHOOSE e \in capMap : e.key = key).id ELSE 0

\* lines 80-96: the chapters created, and capMap
RECURSIVE CreateCapitulos(_, _, _, _)
CreateCapitulos(artigos, k, capMap, created) ==
  IF k > Len(artigos) THEN [capMap |-> capMap, created |-> created]
  ELSE With(artigos[k].capitulo, LAMBDA cap :
         IF cap = NoObject THEN CreateCapitulos(artigos, k + 1, capMap, created)
         ELSE With(CapKey(cap), LAMBDA key :
                IF MapGet(capMap, key) # 0
                THEN CreateCapitulos(artigos, k + 1, capMap, created)
                ELSE CreateCapitulos(artigos, k + 1,
                       capMap \cup {[key |-> key, id |-> Len(created) + 1]},
                       Append(created, [id |-> Len(created) + 1, ordem |-> cap.ordem,
                                        numero |-> cap.numero, nome |-> cap.nome]))))

\* lines 99-111: the article created for artigo (capituloId 0: null)
CreateArtigo(artigo, capMap) ==
  [ordem |-> artigo.ordem,
   capituloId |-> IF artigo.capitulo = NoObject THEN 0
                  ELSE MapGet(capMap, CapKey(artigo.capitulo))]

\* LeiService.saveLei: the records created for the articles of leiData
saveLei(artigos) ==
  With(CreateCapitulos(artigos, 1, {}, <<>>), LAMBDA caps :
    [capitulos |-> caps.created,
     artigos |-> [k \in 1..Len(artigos) |-> CreateArtigo(artigos[k], caps.capMap)]])

\* lines 76-78 and 441-443: leiData.tipo === 'COMPLEMENTAR' ? 'COMPLEMENTAR' : 'LEI'
StoredTipo(tipo) == IF tipo = "COMPLEMENTAR" THEN "COMPLEMENTAR" ELSE "LEI"

\* lines 67-81: the row tx.lei.create makes for leiData
CreateLei(leiData) ==
  [titulo |-> leiData.titulo, ementa |-> leiData.ementa, numero |-> leiData.numero,
   data |-> leiData.data, origem |-> leiData.origem, tipo |-> StoredTipo(leiData.tipo)]

\* LeiService.replaceLei, lines 436-445: the row after tx.lei.update
UpdateLei(row, leiData) ==
  [row EXCEPT !.titulo = leiData.titulo, !.ementa = leiData.ementa,
              !.numero = leiData.numero, !.data = leiData.data,
              !.origem = leiData.origem, !.tipo = StoredTipo(leiData.tipo)]

(***************************************************************************)
(* saveLei called with an Act of up to MaxArtigos articles, as POST /leis  *)
(* accepts them: capitulo optional, its numero and nome optional strings.  *)
(***************************************************************************)
MaxArtigos == 3

Chapters ==
  {[ordem |-> 1, numero |-> Chars("I"), nome |-> Chars("B")],
   [ordem |-> 1, numero |-> Chars("I"), nome |-> Chars("b")],
   [ordem |-> 2, numero |-> Chars("I"), nome |-> Chars("B")],
   [ordem |-> 1, numero |-> Chars("I|A"), nome |-> Chars("B")],
   [ordem |-> 1, numero |-> Chars("I"), nome |-> Chars("A|B")],
   [ordem |-> 1, numero |-> NoText, nome |-> NoText]}

SaveInit ==
  /\ raw = <<>> /\ norm = NormStart /\ block = <<>> /\ scan = ParseStart
  /\ seg = SegStart /\ doc = DocStart /\ svc = SvcStart /\ db = DbStart

AddArtigo ==
  /\ db.pc = "input"
  /\ Len(db.artigos) < MaxArtigos
  /\ \E capitulo \in Chapters \cup {NoObject} :
       db' = [db EXCEPT !.artigos =
                Append(@, [ordem |-> Len(db.artigos) + 1, capitulo |-> capitulo])]
  /\ UNCHANGED <<raw, norm, block, scan, seg, doc, svc>>

SaveLei ==
  /\ db.pc = "input"
  /\ db' = [db EXCEPT !.pc = "saved",
                      !.capitulos = saveLei(db.artigos).capitulos,
                      !.saved = saveLei(db.artigos).artigos]
  /\ UNCHANGED <<raw, norm, block, scan, seg, doc, svc>>

SaveNext == AddArtigo \/ SaveLei

SpecSave == SaveInit /\ [][SaveNext]_vars

\* the triple (ordem, numero, uppercased nome) of a chapter
Triple(cap) ==
  <<cap.ordem, cap.numero, IF cap.nome # NoText THEN toUpperCase(cap.nome) ELSE NoText>>

\* the articles of the Act that have a chapter
WithChapter == {k \in 1..Len(db.artigos) : db.artigos[k].capitulo # NoObject}

\* C13: saveLei creates exactly one chapter record per distinct triple (ordem,
\* numero, uppercased nome) among the chapters of the Act's articles, links
\* every article that has a chapter to the record created for its triple, and
\* saves an article without a chapter with no chapter link.
C13_OneChapterPerTriple ==
  db.pc = "saved" =>
    /\ Len(db.capitulos) = Cardinality({Triple(db.artigos[k].capitulo) : k \in WithChapter})
    /\ \A k \in WithChapter :
         \E n \in 1..Len(db.capitulos) :
           /\ db.capitulos[n].id = db.saved[k].capituloId
           /\ Triple(db.capitulos[n]) = Triple(db.artigos[k].capitulo)
    /\ \A k \in (1..Len(db.artigos)) \ WithChapter : db.saved[k].capituloId = 0

(***************************************************************************)
(* The parents of the nodes parseHierarchicalText creates.                 *)
(***************************************************************************)
\* C14: a line is consumed as a Subsection only when a Paragraph or an Article
\* is open, the Subsection being pushed to that parent; when neither is open
\* no Subsection node is created and the open-Subsection pointer is not set.
C14_SubsectionNeedsParent ==
  /\ scan.consumedAs = "inciso" => scan.appendedTo \in {"paragrafo", "artigo"}
  /\ scan.incisoHome # "detached"

\* the text of the deepest open node among Clause, Subsection, Paragraph and
\* Article, an Article being open
DeepestText(st) ==
  IF st.currentAlinea # 0 THEN CurAlinea(st).texto
  ELSE IF st.incisoHome # NULL THEN CurInciso(st).texto
  ELSE IF st.currentParagrafo # 0 THEN CurParagrafo(st).texto
  ELSE CurArtigo(st).texto

\* the step scans a line that matches no title and no structural marker
\* template, an Article being open
PlainLineScanned ==
  /\ Len(block') = Len(block) + 1
  /\ extractTitleAndNumber(block'[Len(block')]) = NoObject
  /\ ~isStructuralElement(block'[Len(block')])
  /\ scan.currentArtigo # 0

\* the line scanned is appended to the text of the deepest open node, and the
\* summary stays as it was
AppendedToDeepest ==
  /\ scan'.consumedAs = "texto"
  /\ DeepestText(scan') = DeepestText(scan) \o <<" ">> \o block'[Len(block')]
  /\ scan'.ementa = scan.ementa

\* a title has been captured and no summary yet
AwaitsSummary == scan.titulo # <<>> /\ scan.ementa = <<>>

ClauseSeparators == {Chars(") "), Chars(". "), Chars(" - ")}

\* a letter, a separator, some text
ClauseLine(letter, sep) == <<letter>> \o sep \o Chars("t")

OpenArticle == Len(block) = 0 /\ ScanOf(ArticleMarkers)

OpenParagraph == Len(block) = 1 /\ ScanOf(ParagraphMarkers)

OpenSubsection ==
  /\ Len(block) >= 1
  /\ scan.incisoHome = NULL
  /\ ScanOf(SubsectionMarkers)

ScanClauseLetter ==
  /\ Len(block) >= 2
  /\ block[Len(block)] \in SubsectionMarkers
  /\ ScanOf({ClauseLine(letter, sep) : letter \in LowerAZ, sep \in ClauseSeparators})

ClauseNext == OpenArticle \/ OpenParagraph \/ OpenSubsection \/ ScanClauseLetter

SpecClause == ParseInit /\ [][ClauseNext]_vars

\* the subsections of the parent the Subsection marker was pushed to
SubsectionsOpened(st) ==
  IF st.artigos[1].paragrafos # <<>> THEN st.artigos[1].paragrafos[1].incisos
  ELSE st.artigos[1].incisos

\* C16: for every lowercase letter a to z and each of the separators ")", "."
\* and "-", the line of that letter, the separator and some text, processed
\* while a Subsection is open, appends exactly one Clause labelled with the
\* letter to the open Subsection and creates no Subsection.
C16_EveryLetterIsClause ==
  \A letter \in LowerAZ, sep \in ClauseSeparators :
    (Len(block) >= 3 /\ block[Len(block)] = ClauseLine(letter, sep)) =>
      /\ scan.consumedAs = "alinea"
      /\ Len(SubsectionsOpened(scan)) = 1
      /\ SubsectionsOpened(scan)[1].alineas =
           <<[numero |-> <<letter>>, texto |-> Chars("t"), ordem |-> 1, itens |-> <<>>]>>

(***************************************************************************)
(* The blocks of splitByHeaderPattern.                                     *)
(***************************************************************************)
\* the places of the header lines of the text
HeaderAt == {j \in 1..Len(seg.lines) : seg.lines[j] \in SegHeaderLines}

\* C17: in the header pass, the lines that precede the first header line are
\* part of the block started by that header line: a text of k >= 1 non-header
\* lines, one header line and its body yields one block that holds them all.
C17_LeadingLinesJoinFirstBlock ==
  \A k \in 2..Len(seg.lines) :
    (seg.pc = "split" /\ HeaderAt = {k}) => seg.byHeader = <<trim(join(seg.lines))>>

(***************************************************************************)
(* splitByHeaderPattern applied to a text of up to MaxSegLines lines, most *)
(* of them title lines.                                                    *)
(***************************************************************************)
TitleCorpus ==
  {Chars("Projeto de Lei Complementar n^ 1"), Chars("Emenda a Lei Complementar n^ 2"),
   Chars("Lei n^ 5"), Chars("Art. 1^ x"), Chars("Aut&grafo de Lei n^ 10")}

SegAddTitleLine ==
  /\ seg.pc = "input"
  /\ Len(seg.lines) < MaxSegLines
  /\ \E line \in TitleCorpus : seg' = [seg EXCEPT !.lines = Append(@, line)]
  /\ UNCHANGED <<raw, norm, block, scan, doc, svc, db>>

TitlesNext == SegAddTitleLine \/ SegSplit

SpecTitles == SplitInit /\ [][TitlesNext]_vars

\* the places of the lines a title template matches
TitleAt == {j \in 1..Len(seg.lines) : IsFormalTitle(seg.lines[j])}

\* where the blocks of the title-based split start: at the first line, and at
\* every title line after the first title line
TitleStarts == {1} \cup {j \in TitleAt : \E i \in TitleAt : i < j}

\* the block that starts at line a
TitleBlock(a) ==
  LET later == {j \in TitleStarts : j > a}
      end == IF later = {} THEN Len(seg.lines)
             ELSE (CHOOSE j \in later : \A i \in later : j <= i) - 1
  IN join(SubSeq(seg.lines, a, end))

\* C18: whenever the header pass yields 0 or 1 non-empty blocks the result is
\* the title-based split: a new block starts at every line that matches any
\* title template after the first such line.
C18_TitleSplitWhenFewBlocks ==
  (seg.pc = "split" /\ Len(seg.lines) >= 1 /\ Len(seg.byHeader) <= 1) =>
    /\ Len(seg.sections) = Cardinality(TitleStarts)
    /\ \A a \in TitleStarts :
         seg.sections[Cardinality({j \in TitleStarts : j <= a})] = TitleBlock(a)

(***************************************************************************)
(* A page-repeated header line in the Act parsed from its block.           *)
(***************************************************************************)
\* w occurs in s
Contains(s, w) == \E p \in 1..(Len(s) - Len(w) + 1) : SubSeq(s, p, p + Len(w) - 1) = w

Range(seq) == {seq[k] : k \in 1..Len(seq)}

\* the texts of a subsection, its clauses and their items
IncisoTexts(inciso) ==
  {inciso.texto}
    \cup UNION {{alinea.texto} \cup {item.texto : item \in Range(alinea.itens)} :
                  alinea \in Range(inciso.alineas)}

\* the texts of an article and of all the nodes under it
ArtigoTexts(artigo) ==
  {artigo.texto}
    \cup UNION {IncisoTexts(inciso) : inciso \in Range(artigo.incisos)}
    \cup UNION {{paragrafo.texto}
                  \cup UNION {IncisoTexts(inciso) : inciso \in Range(paragrafo.incisos)} :
                  paragrafo \in Range(artigo.paragrafos)}

\* the summary of an Act and the texts of all its nodes
ActTexts(lei) ==
  (IF lei.ementa # NoText THEN {lei.ementa} ELSE {})
    \cup UNION {ArtigoTexts(artigo) : artigo \in Range(lei.artigos)}

\* lines, which begin with a header line, are one block of the header pass:
\* every header line after the first is a page-repeated header
OneHeaderBlock(lines) ==
  /\ Len(lines) >= 1
  /\ lines[1] \in HeaderLines
  /\ HeaderPass(join(lines), NoText) = <<join(lines)>>

\* C19: a page-repeated header line is discarded: in the Act parsed from its
\* block it appears neither in the summary nor in the text of any article,
\* paragraph, subsection, clause or item.
C19_RepeatedHeaderDiscarded ==
  \A j \in 2..Len(block) :
    (OneHeaderBlock(block) /\ block[j] \in HeaderLines) =>
      \A text \in ActTexts(LeiOf(scan)) : ~Contains(text, block[j])

(***************************************************************************)
(* The nodes a step of parseHierarchicalText creates, and their parents.   *)
(***************************************************************************)
\* the paragraphs of the articles, each by its place
ParagraphsOf(st) ==
  UNION {{<<a, p>> : p \in 1..Len(st.artigos[a].paragrafos)} : a \in 1..Len(st.artigos)}

\* the subsections in memory, each with its place: those of the articles,
\* those of their paragraphs, and the one pushed to no list
IncisosOf(st) ==
  UNION {{[at |-> <<a, 0, i>>, node |-> st.artigos[a].incisos[i]] :
            i \in 1..Len(st.artigos[a].incisos)} : a \in 1..Len(st.artigos)}
    \cup UNION {{[at |-> <<x[1], x[2], i>>,
                  node |-> st.artigos[x[1]].paragrafos[x[2]].incisos[i]] :
                   i \in 1..Len(st.artigos[x[1]].paragrafos[x[2]].incisos)} :
                  x \in ParagraphsOf(st)}
    \cup (IF st.detached # NoObject THEN {[at |-> <<0, 0, 0>>, node |-> st.detached]} ELSE {})

ClausesOf(st) ==
  UNION {{<<x.at, c>> : c \in 1..Len(x.node.alineas)} : x \in IncisosOf(st)}

ItemsOf(st) ==
  UNION {UNION {{<<x.at, c, n>> : n \in 1..Len(x.node.alineas[c].itens)} :
                  c \in 1..Len(x.node.alineas)} : x \in IncisosOf(st)}

\* list is old with one more element at its end
OneAppended(old, list) == Len(list) = Len(old) + 1 /\ SubSeq(list, 1, Len(old)) = old

\* the step creates no Paragraph, no Clause and no Item
NothingCreated ==
  /\ Cardinality(ParagraphsOf(scan')) <= Cardinality(ParagraphsOf(scan))
  /\ Cardinality(ClausesOf(scan')) <= Cardinality(ClausesOf(scan))
  /\ Cardinality(ItemsOf(scan')) <= Cardinality(ItemsOf(scan))

\* the line the step scans
Scanned == block'[Len(block')]

SubsectionCreated == Len(block') = Len(block) + 1 /\ scan'.consumedAs = "inciso"

\* list is old with the Subsection of the line scanned at its end
SubsectionAppended(old, list) ==
  /\ OneAppended(old, list)
  /\ list[Len(list)].numero = incisoMatch(Scanned).g1
  /\ list[Len(list)].texto = trim(incisoMatch(Scanned).g2)

\* C21: a Subsection created while a Paragraph is open is appended to that
\* Paragraph's subsection list and to no other list; a Subsection created while
\* an Article is open and no Paragraph is open is appended to the Article's
\* direct subsection list.  After Article, Paragraph, continuation line,
\* Subsection marker the Subsection belongs to the Paragraph.
C21_SubsectionToDeepestParent ==
  [][SubsectionCreated =>
       /\ scan.currentParagrafo # 0 =>
            /\ scan'.currentArtigo = scan.currentArtigo
            /\ scan'.currentParagrafo = scan.currentParagrafo
            /\ SubsectionAppended(CurParagrafo(scan).incisos, CurParagrafo(scan').incisos)
            /\ scan'.artigos =
                 [scan.artigos EXCEPT
                    ![scan.currentArtigo].paragrafos[scan.currentParagrafo].incisos =
                       CurParagrafo(scan').incisos]
            /\ scan'.detached = scan.detached
       /\ (scan.currentParagrafo = 0 /\ scan.currentArtigo # 0) =>
            /\ scan'.currentArtigo = scan.currentArtigo
            /\ SubsectionAppended(CurArtigo(scan).incisos, CurArtigo(scan').incisos)
            /\ scan'.artigos =
                 [scan.artigos EXCEPT ![scan.currentArtigo].incisos = CurArtigo(scan').incisos]
            /\ scan'.detached = scan.detached]_vars

\* C21 witness: Article, Paragraph, continuation line, Subsection marker: the
\* Subsection is in the Paragraph's list and the Article has no direct one
C21_Witness ==
  /\ block = <<Chars("Art. 1^ x"), Chars("$ 1^ p"), Chars("Disp&e"), Chars("I - a")>>
  /\ scan.artigos[1].paragrafos[1].texto = Chars("p Disp&e")
  /\ Len(scan.artigos[1].paragrafos[1].incisos) = 1
  /\ scan.artigos[1].paragrafos[1].incisos[1].numero = Chars("I")
  /\ scan.artigos[1].incisos = <<>>

(***************************************************************************)
(* parseHierarchicalText scanning a block whose lines are title lines of   *)
(* the three act types, some of them dated, a plain line and an Article    *)
(* marker.                                                                 *)
(***************************************************************************)
TitleWords == {Chars("LEI N^ "), Chars("Lei n^ ")}
TitleNumbers == {Chars("8.080"), Chars("12/2020")}
TitleDates == {Chars("DE 19 DE SETEMBRO DE 1990"), Chars("de 1 de maio de 2020")}

\* "Lei nº <number>, de <day> de <month> de <year>"
DatedTitle(words, number, date) == words \o number \o Chars(", ") \o date

DatedTitles ==
  {DatedTitle(words, number, date) :
     words \in TitleWords, number \in TitleNumbers, date \in TitleDates}

TitledCorpus ==
  DatedTitles \cup {Chars("Resolu=~o n^ 3"), Chars("Lei Complementar n^ 9"),
                    Chars("Disp&e"), Chars("Art. 1^ x")}

ScanTitled == Len(block) < MaxLines /\ ScanOf(TitledCorpus)

TitledNext == ScanTitled

SpecTitled == ParseInit /\ [][TitledNext]_vars

\* no line of the block matches a title template
NoTitleYet == \A k \in 1..Len(block) : extractTitleAndNumber(block[k]) = NoObject

\* title, number, type and date are those of line; the summary and the nodes
\* are as they were
TitleTakenFrom(line) ==
  /\ scan'.titulo = extractTitleAndNumber(line).titulo
  /\ scan'.numero = extractTitleAndNumber(line).numero
  /\ scan'.tipo = extractTitleAndNumber(line).tipo
  /\ scan'.data = parseDate(line)
  /\ scan'.ementa = scan.ementa
  /\ scan'.artigos = scan.artigos
  /\ scan'.detached = scan.detached

TitleKept ==
  /\ scan'.titulo = scan.titulo
  /\ scan'.numero = scan.numero
  /\ scan'.tipo = scan.tipo
  /\ scan'.data = scan.data

\* C22: the title, number and type of the Act are fixed by the first line, in
\* document order, that matches a title template, and that line becomes
\* neither summary nor node text; no later line, even one matching a title
\* template, changes the title, number, type or date.
C22_FirstTitleWins ==
  [][Len(block') = Len(block) + 1 =>
       IF NoTitleYet /\ extractTitleAndNumber(Scanned) # NoObject
       THEN TitleTakenFrom(Scanned)
       ELSE TitleKept]_vars

\* C22 witness: a plain line, a dated ordinary law title, then a resolution
\* title: title, number, type and date are those of the second line, and the
\* third line joins the summary
C22_Witness ==
  /\ Len(block) = 3
  /\ block[1] = Chars("Disp&e")
  /\ block[2] = Chars("Lei n^ 12/2020, de 1 de maio de 2020")
  /\ block[3] = Chars("Resolu=~o n^ 3")
  /\ scan.tipo = "LEI"
  /\ scan.data = [year |-> 2020, month |-> 4, day |-> 1]
  /\ scan.ementa = Chars("Disp&e Resolu=~o n^ 3")

(***************************************************************************)
(* An Act parsed by parseHierarchicalText from a block of chapter          *)
(* headings, article markers and plain lines, then saved by saveLei.       *)
(***************************************************************************)
ChapterCorpus ==
  {Chars("Cap%tulo I - GERAL"), Chars("Cap%tulo II"), Chars("Art. 1^ x"), Chars("Disp&e")}

ScanChapterLine ==
  /\ db.pc = "input"
  /\ Len(block) < MaxLines
  /\ ScanOf(ChapterCorpus)

\* saveLei(parseHierarchicalText(block))
SaveParsed ==
  /\ db.pc = "input"
  /\ db' = [pc |-> "saved",
            artigos |-> LeiOf(scan).artigos,
            capitulos |-> saveLei(LeiOf(scan).artigos).capitulos,
            saved |-> saveLei(LeiOf(scan).artigos).artigos,
            lei |-> CreateLei(LeiOf(scan))]
  /\ UNCHANGED <<raw, norm, block, scan, seg, doc, svc>>

ChaptersNext == ScanChapterLine \/ SaveParsed

SpecChapters == ParseInit /\ [][ChaptersNext]_vars

\* the places of the Chapter markers of the block
ChapterAt == {k \in 1..Len(block) : capituloMatch(block[k]).ok}

\* the places of the Article markers of the block
ArticleAt == {k \in 1..Len(block) : ~capituloMatch(block[k]).ok /\ artigoMatch(block[k]).ok}

\* an Article marker follows line k before the next Chapter marker
FollowedByArticle(k) ==
  \E a \in ArticleAt : a > k /\ \A m \in (k + 1)..(a - 1) : m \notin ChapterAt

\* the chapter records created for the heading line
RecordsOf(heading) ==
  {n \in 1..Len(db.capitulos) :
     /\ db.capitulos[n].numero = capituloMatch(heading).g1
     /\ db.capitulos[n].nome =
          (IF trim(capituloMatch(heading).g2) # <<>> THEN trim(capituloMatch(heading).g2)
           ELSE NoText)}

\* C23: when the same chapter heading line occurs twice in one act's text, each
\* occurrence followed by at least one article, parsing the text and saving the
\* result creates one chapter for that heading, not two.
C23_RepeatedHeadingOneChapter ==
  \A i, j \in ChapterAt :
    (/\ db.pc = "saved" /\ i < j /\ block[i] = block[j]
     /\ FollowedByArticle(i) /\ FollowedByArticle(j)
     /\ Cardinality({k \in ChapterAt : block[k] = block[i]}) = 2)
      => Cardinality(RecordsOf(block[i])) = 1

\* the chapter the Chapter marker at line k opens: its sequenceIndex is the
\* number of Chapter markers up to line k
ChapterOpenedAt(k) ==
  [ordem |-> Cardinality({m \in ChapterAt : m <= k}),
   numero |-> capituloMatch(block[k]).g1,
   nome |-> IF trim(capituloMatch(block[k]).g2) # <<>> THEN trim(capituloMatch(block[k]).g2)
            ELSE NoText]

\* the last Chapter marker before line a (0 if none)
LastChapterBefore(a) ==
  IF \E k \in ChapterAt : k < a
  THEN CHOOSE k \in ChapterAt : k < a /\ \A m \in ChapterAt : m < a => m <= k
  ELSE 0

\* C24: the k-th Chapter marker of the text opens a chapter with sequenceIndex
\* k, and every Article carries as chapter back-reference the chapter opened by
\* the most recent Chapter marker that precedes it in the text; an Article that
\* precedes every Chapter marker carries no chapter.
C24_ArticleCarriesLastChapter ==
  /\ scan.capituloCount = Cardinality(ChapterAt)
  /\ ChapterAt # {} => scan.currentCapitulo = ChapterOpenedAt(LastChapterBefore(Len(block) + 1))
  /\ Len(scan.artigos) = Cardinality(ArticleAt)
  /\ \A a \in ArticleAt :
       scan.artigos[Cardinality({m \in ArticleAt : m <= a})].capitulo =
         (IF LastChapterBefore(a) = 0 THEN NoObject
          ELSE ChapterOpenedAt(LastChapterBefore(a)))

\* C24 witness: an Article before every Chapter marker, two Chapter markers,
\* an Article: the first carries no chapter, the second the chapter of the
\* second marker
C24_Witness ==
  /\ block = <<Chars("Art. 1^ x"), Chars("Cap%tulo I - GERAL"), Chars("Cap%tulo II"),
               Chars("Art. 1^ x")>>
  /\ scan.artigos[1].capitulo = NoObject
  /\ scan.artigos[2].capitulo = [ordem |-> 2, numero |-> Chars("II"), nome |-> NoText]

(***************************************************************************)
(* The number extractTitleAndNumber gives for a dated title line.          *)
(***************************************************************************)
\* C25: for a title line of the form "Lei nº <number>, de <day> de <month> de
\* <year>" the number extracted by extractTitleAndNumber is exactly <number>,
\* with no trailing comma or other punctuation.
C25_NumberWithoutComma ==
  \A words \in TitleWords, number \in TitleNumbers, date \in TitleDates :
    (Len(block) >= 1 /\ block[1] = DatedTitle(words, number, date)) =>
      /\ extractTitleAndNumber(block[1]).numero = number
      /\ scan.numero = number

(***************************************************************************)
(* The lines of the blocks of splitByHeaderPattern and the lines of its    *)
(* text.  The non-blank lines of a text are its lines as                   *)
(* parseHierarchicalText reads them: trimmed, the empty ones left out.     *)
(***************************************************************************)
\* the non-blank lines of the blocks, read block after block
RECURSIVE LinesOfBlocks(_)
LinesOfBlocks(sections) ==
  IF sections = <<>> THEN <<>>
  ELSE ParseLines(Head(sections)) \o LinesOfBlocks(Tail(sections))

NothingLost(sections) ==
  /\ LinesOfBlocks(sections) = ParseLines(join(seg.lines))
  /\ \A k \in 1..Len(sections) : ParseLines(sections[k]) # <<>>

MaxActLines == 5

ReappearCorpus ==
  {Chars("Aut&grafo de Lei n^ 10"), Chars("Aut&grafo de Lei n^ 11"),
   Chars("Art. 1^ x"), Chars("Art. 2^ y")}

\* the upload of a .docx file
UploadDocx ==
  /\ doc.pc = "idle"
  /\ \E request \in {r \in Requests : r.signature = "docx" /\ ~IsTemporaryFile(r.filename)} :
       doc' = [doc EXCEPT !.pc = "input", !.request = request]
  /\ UNCHANGED <<raw, norm, block, scan, seg, svc, db>>

AddActLine ==
  /\ doc.pc = "input"
  /\ Len(doc.lines) < MaxActLines
  /\ \E line \in ReappearCorpus : doc' = [doc EXCEPT !.lines = Append(@, line)]
  /\ UNCHANGED <<raw, norm, block, scan, seg, svc, db>>

ReappearNext == UploadDocx \/ AddActLine \/ Process

SpecReappear == DocInit /\ [][ReappearNext]_vars

\* the places of the header lines of the upload, and the digits of a header
DocHeaderAt == {k \in 1..Len(doc.lines) : AUTOGRAFO_HEADER(doc.lines[k]).ok}

DocHeaderNumber(k) == digits(AUTOGRAFO_HEADER(doc.lines[k]).g1)

\* the text begins with a header and has three headers, numbered a, b, a
HeadersABA ==
  /\ doc.pc = "done"
  /\ 1 \in DocHeaderAt
  /\ \E h2, h3 \in DocHeaderAt :
       /\ DocHeaderAt = {1, h2, h3}
       /\ 1 < h2 /\ h2 < h3
       /\ DocHeaderNumber(1) # DocHeaderNumber(h2)
       /\ DocHeaderNumber(h3) = DocHeaderNumber(1)

\* the article lines of the block of the last header that are lines of no
\* earlier block
LaterBlockOnly ==
  {k \in 1..Len(doc.lines) :
     /\ artigoMatch(doc.lines[k]).ok
     /\ \A h \in DocHeaderAt : h < k
     /\ \A j \in 1..Len(doc.lines) :
          doc.lines[j] = doc.lines[k] => \A h \in DocHeaderAt : h < j}

MaxTypeLines == 3

TypedCorpus ==
  {Chars("Lei n^ 10"), Chars("Lei Complementar n^ 10"), Chars("Resolu=~o n^ 10"),
   Chars("Lei n^ 10/2020, de 1 de maio de 2020"),
   Chars("Lei Complementar n^ 10/2020, de 1 de maio de 2020"),
   Chars("Art. 1^ x")}

AddTypedLine ==
  /\ doc.pc = "input"
  /\ Len(doc.lines) < MaxTypeLines
  /\ \E line \in TypedCorpus : doc' = [doc EXCEPT !.lines = Append(@, line)]
  /\ UNCHANGED <<raw, norm, block, scan, seg, svc, db>>

TypesNext == UploadDocx \/ AddTypedLine \/ Process

SpecTypes == DocInit /\ [][TypesNext]_vars

\* C28: the deduplication step never collapses two Acts of different act type:
\* an ordinary law numbered 10 and a complementary law numbered LC 10 (or a
\* resolution RES 10) with the same date are both present in the returned
\* sequence: every parsed Act has, among the Acts returned, an Act of its type
\* with its number and date.
C28_TypesNotCollapsed ==
  (Extracted /\ doc.out.raised = NULL) =>
    \A j \in 1..Len(Parsed) :
      \E n \in 1..Len(doc.out.leis) :
        /\ doc.out.leis[n].tipo = Parsed[j].tipo
        /\ KeyOf(doc.out.leis[n]) = KeyOf(Parsed[j])

(***************************************************************************)
(* An Act of each type parsed by parseHierarchicalText and saved by        *)
(* saveLei, then replaced through replaceLei by a parsed Act.              *)
(***************************************************************************)
PersistCorpus ==
  {Chars("Lei n^ 10"), Chars("Lei Complementar n^ 10"), Chars("Resolu=~o n^ 10"),
   Chars("Art. 1^ x"), Chars("Disp&e")}

ScanPersistLine ==
  /\ db.pc = "input"
  /\ Len(block) < MaxLines
  /\ ScanOf(PersistCorpus)

\* replaceLei(id, leiData), leiData the Act parsed from a title line
ReplaceLei ==
  /\ db.pc \in {"saved", "replaced"}
  /\ \E line \in PersistCorpus :
       With(parseHierarchicalText(line), LAMBDA leiData :
         db' = [pc |-> "replaced",
                artigos |-> leiData.artigos,
                capitulos |-> saveLei(leiData.artigos).capitulos,
                saved |-> saveLei(leiData.artigos).artigos,
                lei |-> UpdateLei(db.lei, leiData)])
  /\ UNCHANGED <<raw, norm, block, scan, seg, doc, svc>>

PersistNext == ScanPersistLine \/ SaveParsed \/ ReplaceLei

SpecPersist == ParseInit /\ [][PersistNext]_vars

\* C29: the act type detected by the parser is the act type that is persisted:
\* an Act of each of the three types passed to saveLei or replaceLei is stored
\* with that same type; a RESOLUTION act is not stored as an ordinary law.
C29_TypePersisted ==
  /\ (db.pc = "saved" /\ scan.tipo # NULL) => db.lei.tipo = scan.tipo
  /\ (db.pc \in {"saved", "replaced"} /\ extractTitleAndNumber(db.lei.titulo) # NoObject) =>
       db.lei.tipo = extractTitleAndNumber(db.lei.titulo).tipo

(***************************************************************************)
(* What a call of processWordDocument returns, and the file it was given.  *)
(***************************************************************************)
\* call j was given a processable buffer whose content differs from the
\* content of every buffer given before
NewContent(j) ==
  /\ ~IsTemporaryFile(svc.calls[j].file.filename)
  /\ UploadResultOf(svc.calls[j].file.buffer, svc.calls[j].file.filename,
                    svc.calls[j].file.mimetype).success
  /\ \A i \in 1..(j - 1) : svc.calls[i].file.buffer.body # svc.calls[j].file.buffer.body

\* C30: after any sequence of earlier calls, a call with a buffer whose content
\* differs from every earlier buffer returns the Act parsed from that buffer,
\* even when its file name and byte length equal those of an earlier
\* successfully processed file; and a failed result is never served from the
\* cache.
C30_ResultOfTheDocument ==
  /\ \A j \in 1..Len(svc.calls) :
       NewContent(j) =>
         svc.calls[j].result =
           UploadResultOf(svc.calls[j].file.buffer, svc.calls[j].file.filename,
                          svc.calls[j].file.mimetype)
  /\ \A e \in svc.cache : svc.pristine[e.ref].success

====
